---- MODULE Spec2Model ----
(***************************************************************************)
(* The timeline editor of src/components/Timeline.tsx: the clip list, the  *)
(* audio buffer cache (loadAudioBuffer), the playback scheduler            *)
(* (playTimelineFromTime, updateProgress, stopPlayback, togglePlay,        *)
(* handleTimelineClick) and the asynchronous work around them: decodes in  *)
(* flight, animation-frame callbacks, 'ended' events of source nodes.      *)
(*                                                                         *)
(* Time is the AudioContext clock in whole seconds.  One action is one     *)
(* browser task: an event handler, or the continuation of an async         *)
(* function up to its next real suspension (an await on a value that is    *)
(* already there only yields to the microtask queue, which no other task   *)
(* can enter).                                                             *)
(***************************************************************************)
EXTENDS Integers, Sequences, FiniteSets, TLC

\* ------------------------------------------------------------------ bounds
MaxClips == 2      \* clips on the timeline
MaxEnd == 3        \* latest end of a clip
MaxClock == 3      \* last reading of the AudioContext clock
MaxStart == 2      \* largest position of a click on the timeline
MaxDrag == 0       \* largest position a clip is dragged to
MaxCalls == 2      \* playTimelineFromTime invocations suspended at once
MaxDecode == 1     \* seconds of the clock an invocation stays suspended
MaxPending == 2    \* animation-frame callbacks pending at once
MaxTrack == 3      \* clips on the timeline while it is edited
MaxPos == 2        \* largest position a clip is put at while the timeline is edited
MaxNeg == 1        \* how far left of 0 a requested position lies
MaxGap == 1        \* largest interval typed into the spacing field
MaxNegGap == 2     \* how far below 0 a typed interval lies
MaxProbes == 1     \* metadata loads pending at once

\* The assets of the history list, with GeneratedAudio.duration in seconds.
Assets == {"A", "B"}
AssetDuration(a) == IF a = "A" THEN 2 ELSE 1

VARIABLES
  clips,                 \* useState clips: sequence of TimelineClip
  currentTime,           \* useState currentTime: the reported position
  isPlaying,             \* useState isPlaying
  isPlayingRef,          \* isPlayingRef.current
  sourceNodes,           \* sourceNodesRef.current
  playStartTimeRef,      \* playStartTimeRef.current
  progressAnimationRef,  \* progressAnimationRef.current, 0 for null
  audioBuffers,          \* keys of audioBuffersRef.current
  clock,                 \* audioContextRef.current.currentTime
  rafQueue,              \* the window's list of animation frame callbacks
  endedQ,                \* 'ended' events dispatched and not yet handled
  calls,                 \* playTimelineFromTime invocations not yet returned
  sessionTotal,          \* totalDuration of the invocation that last set playStartTimeRef
  stopped,               \* history: stopPlayback returned, no play or seek call since
  probes,                \* Audio elements whose metadata is loading, with addClip's closure
  exports,               \* exportAudio invocations not yet returned
  exported,              \* what the exportAudio invocation that returned last has done
  batch                  \* handleBatchImport: its items, its loop index, currentTimelineTime

vars == <<clips, currentTime, isPlaying, isPlayingRef, sourceNodes, playStartTimeRef,
          progressAnimationRef, audioBuffers, clock, rafQueue, endedQ,
          calls, sessionTotal, stopped, probes, exports, exported, batch>>

\* The component's state as one record, so that a handler is a function on it.
St ==
  [clips |-> clips, currentTime |-> currentTime, isPlaying |-> isPlaying,
   isPlayingRef |-> isPlayingRef, sourceNodes |-> sourceNodes,
   playStartTimeRef |-> playStartTimeRef, progressAnimationRef |-> progressAnimationRef,
   audioBuffers |-> audioBuffers, clock |-> clock,
   rafQueue |-> rafQueue, endedQ |-> endedQ, calls |-> calls,
   sessionTotal |-> sessionTotal, stopped |-> stopped]

StNext ==
  [clips |-> clips', currentTime |-> currentTime', isPlaying |-> isPlaying',
   isPlayingRef |-> isPlayingRef', sourceNodes |-> sourceNodes',
   playStartTimeRef |-> playStartTimeRef', progressAnimationRef |-> progressAnimationRef',
   audioBuffers |-> audioBuffers', clock |-> clock',
   rafQueue |-> rafQueue', endedQ |-> endedQ', calls |-> calls',
   sessionTotal |-> sessionTotal', stopped |-> stopped']

\* ----------------------------------------------------------------- helpers
\* No AudioBuffer, no Blob, no value of window.Lame, no export so far.
\* `failed` is the asset whose decode made the export fail, "" when none did.
NoBuffer == [length |-> 0, numberOfChannels |-> 0, sampleRate |-> 0, channels |-> <<>>]
NoBlob == [type |-> "", size |-> 0, bytes |-> <<>>]
NoLame == [kind |-> "", block |-> 0, flush |-> 0]
NoExport ==
  [kind |-> "none", clips |-> <<>>, audioBuffer |-> NoBuffer, blob |-> NoBlob,
   download |-> "", lame |-> NoLame, failed |-> ""]

\* No batch import is running.
NoBatch == [items |-> <<>>, i |-> 1, currentTimelineTime |-> 0]

\* What audio.blob of a clip is: the Blob of the synthesis, or the plain
\* object {} that JSON.parse gives for it.
Blob == "Blob"
PlainObject == "Object"

Min2(a, b) == IF a <= b THEN a ELSE b
Max2(a, b) == IF a >= b THEN a ELSE b

SeqMax(S) == CHOOSE m \in S : \A x \in S : x <= m

\* An id that is none of `used`: ids are numbered in the order of creation.
Fresh(used) == IF used = {} THEN 1 ELSE SeqMax(used) + 1

\* The rank of id among the ids in use, 0 for the id 0.
Rank(used, id) == Cardinality({u \in used : 0 < u /\ u <= id})

Remove(seq, i) == SubSeq(seq, 1, i - 1) \o SubSeq(seq, i + 1, Len(seq))

\* c.startTime + (c.audio.duration || 0)
ClipEnd(c) == c.startTime + c.duration

\* The end of the last clip of the list: C13 tells it from TotalDuration.
EndOfLastClip(cs) == IF cs = <<>> THEN 0 ELSE ClipEnd(cs[Len(cs)])

\* Math.max(...clips.map(c => c.startTime + (c.audio.duration || 0))), 0 when empty
TotalDuration(cs) ==
  IF cs = <<>> THEN 0 ELSE SeqMax({ClipEnd(cs[i]) : i \in DOMAIN cs})

\* Array.prototype.sort((a, b) => a.startTime - b.startTime): a stable sort.
RECURSIVE InsertByStart(_, _)
InsertByStart(sorted, c) ==
  IF sorted = <<>> THEN <<c>>
  ELSE IF c.startTime < Head(sorted).startTime THEN <<c>> \o sorted
  ELSE <<Head(sorted)>> \o InsertByStart(Tail(sorted), c)

RECURSIVE SortByStart(_)
SortByStart(cs) ==
  IF cs = <<>> THEN <<>>
  ELSE InsertByStart(SortByStart(SubSeq(cs, 1, Len(cs) - 1)), cs[Len(cs)])

\* Clip ids in use anywhere: crypto.randomUUID() never returns one of them.
UsedClipIds(s) ==
  {s.clips[i].id : i \in DOMAIN s.clips}
    \cup {s.sourceNodes[i].clip : i \in DOMAIN s.sourceNodes}
    \cup UNION {{s.calls[k].clips[i].id : i \in DOMAIN s.calls[k].clips} : k \in DOMAIN s.calls}

\* The clip ids of a clip list, of a node list, renumbered.
RenameClips(cs, used) == [i \in DOMAIN cs |-> [cs[i] EXCEPT !.id = Rank(used, @)]]
RenameNodes(ns, used) == [i \in DOMAIN ns |-> [ns[i] EXCEPT !.clip = Rank(used, @)]]

\* ------------------------------------------------------------ source nodes
\* A started AudioBufferSourceNode, as its invocation knows it: `when` and `off`
\* are the arguments of source.start(playTime, bufferOffset); `at` is the
\* instant it begins to emit, which is `when`, or the clock reading of the call
\* when `when` has passed. It emits buffer position off + d at the instant
\* at + d, to the end of the buffer.
NodeEnd(n) == n.at + (AssetDuration(n.audioId) - n.off)

\* The node as sourceNodesRef holds it: the clip it plays and the instant at
\* which it falls silent by itself.
Handle(n) == [clip |-> n.clip, end |-> NodeEnd(n)]

\* A node that has played to its end: stop() of it does nothing and nothing
\* else of it is read.
EndedNode == [clip |-> 0, end |-> 0]

Live(h, now) == now < h.end
LiveNodes(s) == {i \in DOMAIN s.sourceNodes : Live(s.sourceNodes[i], s.clock)}

\* sourceNodesRef.current.forEach(node => node.stop()); sourceNodesRef.current = [].
\* Each node that has not played to its end dispatches 'ended' once stopped.
StopNodes(s) ==
  [s EXCEPT !.endedQ = @ + Cardinality(LiveNodes(s)), !.sourceNodes = <<>>]

\* cancelAnimationFrame(id)
CancelFrame(q, id) == SelectSeq(q, LAMBDA cb : cb.id # id)

\* requestAnimationFrame ids in use; a new id is none of them.
UsedFrameIds(s) ==
  {s.rafQueue[i].id : i \in DOMAIN s.rafQueue} \cup {s.progressAnimationRef}

\* progressAnimationRef.current = requestAnimationFrame(updateProgress), with
\* updateProgress closed over totalDuration.
RequestFrame(s, total) ==
  LET id == Fresh(UsedFrameIds(s)) IN
  [s EXCEPT !.rafQueue = Append(@, [id |-> id, total |-> total]),
            !.progressAnimationRef = id]

\* useEffect(..., [isPlaying]): after the render that follows a handler, when
\* isPlaying has become false, the frame progressAnimationRef names is cancelled.
Commit(pre, post) ==
  IF pre.isPlaying /\ ~post.isPlaying /\ post.progressAnimationRef # 0
  THEN [post EXCEPT !.rafQueue = CancelFrame(@, post.progressAnimationRef),
                    !.progressAnimationRef = 0]
  ELSE post

\* ------------------------------------------------------------ stopPlayback
StopPlayback(s) ==
  LET s1 == StopNodes(s)
      s2 == IF s1.progressAnimationRef # 0
            THEN [s1 EXCEPT !.rafQueue = CancelFrame(@, s1.progressAnimationRef),
                            !.progressAnimationRef = 0]
            ELSE s1
  IN [s2 EXCEPT !.isPlaying = FALSE, !.isPlayingRef = FALSE, !.currentTime = 0,
                !.stopped = TRUE]

\* ----------------------------------------------------- playTimelineFromTime
\* An invocation of playTimelineFromTime: `clips` is the clip list its closure
\* holds (sorted once the body has run), `made` the sources it has started.
\* pc: "decode" (awaiting the decode of clips[idx]), "done" (its promise
\* settles in the next microtask), "caught" (the same, after the catch block). The AudioContext runs, so the invocation
\* does not await resume().
NewCall(s, startOffset) ==
  [pc |-> "decode", clips |-> s.clips, startOffset |-> startOffset,
   total |-> 0, f |-> 0, T0 |-> 0, idx |-> 1, made |-> <<>>]

\* if (clipEndTime <= clampedStartOffset) continue
Skipped(c, clip) == ClipEnd(clip) <= c.f

\* A start time that leaves the start offset out: C6 tells it from PlayTime.
PlayTimeIgnoringOffset(c, clip) == c.T0 + clip.startTime

\* playTime of source.start(playTime, bufferOffset)
PlayTime(c, clip) ==
  IF c.f <= clip.startTime THEN c.T0 + (clip.startTime - c.f) ELSE c.T0

\* bufferOffset of source.start(playTime, bufferOffset)
BufferOffset(c, clip) ==
  IF c.f <= clip.startTime THEN 0 ELSE c.f - clip.startTime

\* createBufferSource ... source.start(playTime, bufferOffset): a start time
\* that has passed starts the source at once, from the same buffer offset.
NewNode(s, c, clip) ==
  [clip |-> clip.id, audioId |-> clip.audioId, when |-> PlayTime(c, clip),
   off |-> BufferOffset(c, clip), at |-> Max2(PlayTime(c, clip), s.clock)]

\* setIsPlaying(true) ... progressAnimationRef.current = requestAnimationFrame(updateProgress)
PlayFinish(s, c) ==
  LET s1 == [s EXCEPT !.isPlaying = TRUE, !.isPlayingRef = TRUE, !.currentTime = c.f]
      s2 == RequestFrame(s1, c.total)
  IN [s2 EXCEPT !.calls = Append(@, [c EXCEPT !.pc = "done"])]

\* A cache that never has the buffer: C30 tells it from HasBuffer.
NeverCached(s, audioId) == FALSE

\* loadAudioBuffer's await audio.blob.arrayBuffer() can be called: a plain
\* object has no method arrayBuffer, and the call throws a TypeError.
Decodable(clip) == clip.blob = Blob

\* loadAudioBuffer's audioBuffersRef.current.has(audio.id)
HasBuffer(s, audioId) == audioId \in s.audioBuffers

\* for (const clip of sortedClips) { ... }, from clips[idx] to the next clip
\* whose buffer is not in the cache, or to the end.
RECURSIVE PlayLoop(_, _)
PlayLoop(s, c) ==
  IF c.idx > Len(c.clips) THEN PlayFinish(s, c)
  ELSE LET clip == c.clips[c.idx] IN
    IF Skipped(c, clip) THEN PlayLoop(s, [c EXCEPT !.idx = @ + 1])
    ELSE IF ~HasBuffer(s, clip.audioId)
    THEN [s EXCEPT !.calls = Append(@, [c EXCEPT !.pc = "decode"])]
    ELSE LET node == NewNode(s, c, clip) IN
         PlayLoop([s EXCEPT !.sourceNodes = Append(@, Handle(node))],
                  [c EXCEPT !.idx = @ + 1, !.made = Append(@, node)])

\* Math.max(0, Math.min(startOffset, totalDuration))
ClampOffset(startOffset, total) == Max2(0, Min2(startOffset, total))

\* The body: stop the previous sources, sort, compute the
\* total, clamp, read the clock once, set playStartTimeRef, run the loop.
PlayBody(s, c) ==
  LET sorted == SortByStart(c.clips)
      total == TotalDuration(sorted)
      f == ClampOffset(c.startOffset, total)
      s1 == StopNodes(s)
      s2 == [s1 EXCEPT !.playStartTimeRef = s.clock - f, !.sessionTotal = total]
  IN PlayLoop(s2, [c EXCEPT !.clips = sorted, !.total = total, !.f = f,
                            !.T0 = s.clock, !.idx = 1])

\* An invocation that does not return on an empty clip list: C11 tells it
\* from PlayTimelineFromTime.
PlayWithoutEmptyGuard(s, startOffset) ==
  PlayBody([s EXCEPT !.stopped = FALSE], NewCall(s, startOffset))

\* playTimelineFromTime(startOffset), to its first suspension.
PlayTimelineFromTime(s, startOffset) ==
  LET s0 == [s EXCEPT !.stopped = FALSE] IN
  IF s.clips = <<>> THEN s0 ELSE PlayBody(s0, NewCall(s, startOffset))

\* loadAudioBuffer's decodeAudioData returns: the buffer enters the cache and
\* the loop goes on with the clip it was awaited for.
AfterDecode(s, i) ==
  LET c == s.calls[i] IN
  PlayLoop([s EXCEPT !.audioBuffers = @ \cup {c.clips[c.idx].audioId},
                     !.calls = Remove(@, i)], c)

\* ---------------------------------------------------------- updateProgress
UpdateProgress(s, cb) ==
  IF ~s.isPlayingRef
  THEN [s EXCEPT !.isPlaying = FALSE, !.isPlayingRef = FALSE]
  ELSE LET elapsed == s.clock - s.playStartTimeRef IN
    IF elapsed < cb.total
    THEN RequestFrame([s EXCEPT !.currentTime = Min2(elapsed, cb.total)], cb.total)
    ELSE [s EXCEPT !.isPlaying = FALSE, !.isPlayingRef = FALSE, !.currentTime = 0]

\* One animation frame: the callbacks pending at its start run in the order
\* they were requested; what they request runs in the next frame.
RECURSIVE RunCallbacks(_, _)
RunCallbacks(s, q) ==
  IF q = <<>> THEN s ELSE RunCallbacks(UpdateProgress(s, Head(q)), Tail(q))

AnimationFrame(s) == RunCallbacks([s EXCEPT !.rafQueue = <<>>], s.rafQueue)

\* source.onended: no node has playbackState (not a property of a standard
\* AudioBufferSourceNode) and every node has a buffer, so `every` is true of
\* the empty array only.
AllEnded(nodes) == \A i \in DOMAIN nodes : FALSE

OnEnded(s) ==
  LET s1 == [s EXCEPT !.endedQ = @ - 1] IN
  IF AllEnded(s.sourceNodes) /\ s.isPlayingRef
  THEN [s1 EXCEPT !.isPlaying = FALSE, !.isPlayingRef = FALSE, !.currentTime = 0]
  ELSE s1

\* ------------------------------------------------- handlers of user events
\* togglePlay
TogglePlaySt(s) ==
  IF s.isPlaying THEN StopPlayback(s) ELSE PlayTimelineFromTime(s, 0)

\* A click handler that does not clamp to the total: C8 tells it from
\* HandleTimelineClickSt.
HandleTimelineClickUnclamped(s, x) ==
  IF s.isPlaying THEN PlayTimelineFromTime(s, x)
  ELSE [s EXCEPT !.currentTime = x, !.stopped = FALSE]

\* handleTimelineClick, past its drag and data-clip guards: x is the clicked
\* position in seconds.
HandleTimelineClickSt(s, x) ==
  LET clickedTime == Max2(0, x)
      clampedTime == Min2(clickedTime, TotalDuration(s.clips))
  IN IF s.isPlaying THEN PlayTimelineFromTime(s, clampedTime)
     ELSE [s EXCEPT !.currentTime = clampedTime, !.stopped = FALSE]

\* addAudioToTimeline of an audio whose duration is known
AddAudioToTimelineSt(s, a) ==
  LET newClip == [id |-> Fresh(UsedClipIds(s)), audioId |-> a, blob |-> Blob,
                  startTime |-> TotalDuration(s.clips), duration |-> AssetDuration(a)]
  IN [s EXCEPT !.clips = SortByStart(Append(@, newClip))]

\* A drag that does not clamp the position: C17 tells it from HandleClipDragSt.
DragUnclamped(s, id, time) ==
  [s EXCEPT !.clips = SortByStart(
     [i \in DOMAIN @ |-> IF @[i].id = id THEN [@[i] EXCEPT !.startTime = time]
                         ELSE @[i]])]

\* handleClipDrag: the dragged clip follows the pointer, clamped to >= 0
HandleClipDragSt(s, id, time) ==
  [s EXCEPT !.clips = SortByStart(
     [i \in DOMAIN @ |-> IF @[i].id = id THEN [@[i] EXCEPT !.startTime = Max2(0, time)]
                         ELSE @[i]])]

\* A deletion that empties the timeline: C18 tells it from ConfirmDeleteSt.
DeleteEveryClip(s, sel) == IF sel # {} THEN [s EXCEPT !.clips = <<>>] ELSE s

\* confirmDeleteSelectedClips with selectedClips = sel
ConfirmDeleteSt(s, sel) ==
  IF sel # {} THEN [s EXCEPT !.clips = SelectSeq(@, LAMBDA c : c.id \notin sel)] ELSE s

\* ------------------------------------------------------------------ actions
Set(r) ==
  /\ clips' = r.clips /\ currentTime' = r.currentTime /\ isPlaying' = r.isPlaying
  /\ isPlayingRef' = r.isPlayingRef /\ sourceNodes' = r.sourceNodes
  /\ playStartTimeRef' = r.playStartTimeRef
  /\ progressAnimationRef' = r.progressAnimationRef
  /\ audioBuffers' = r.audioBuffers /\ clock' = r.clock
  /\ rafQueue' = r.rafQueue /\ endedQ' = r.endedQ /\ calls' = r.calls
  /\ sessionTotal' = r.sessionTotal /\ stopped' = r.stopped
  /\ probes' = probes /\ exports' = exports /\ exported' = exported
  /\ batch' = batch

Bounded(r) ==
  /\ Len(r.clips) <= MaxClips
  /\ TotalDuration(r.clips) <= MaxEnd
  /\ Len(r.calls) <= MaxCalls
  /\ Len(r.rafQueue) <= MaxPending
\* Nothing is decoding, playing, pending or scheduled to emit.
AtRest(s) ==
  s.calls = <<>> /\ ~s.isPlayingRef /\ s.rafQueue = <<>> /\ LiveNodes(s) = {}

\* What no code path reads again is set to a fixed value: the schedule of a
\* node that has played to its end; playStartTimeRef (and the total set with
\* it) while nothing plays and no invocation is in flight; the id of a frame
\* that is no longer pending. Pending frames are renumbered in the order of
\* their requests, and clip ids in the order of their creation: an id is only
\* ever compared with another. The clock is read only through differences, and
\* is counted from the last instant at rest. The history `stopped` is kept
\* while an invocation is in flight: with none, no source starts before the
\* next play or seek call, which resets it.
FrameIndex(q, id) ==
  IF \E i \in DOMAIN q : q[i].id = id
  THEN CHOOSE i \in DOMAIN q : q[i].id = id ELSE 0

Forget(s) ==
  LET dead == ~s.isPlayingRef /\ s.calls = <<>>
      nodes == [i \in DOMAIN s.sourceNodes |->
                  IF Live(s.sourceNodes[i], s.clock) THEN s.sourceNodes[i] ELSE EndedNode]
      used == UsedClipIds([s EXCEPT !.sourceNodes = nodes])
  IN
  [s EXCEPT
     !.clips = RenameClips(@, used),
     !.sourceNodes = RenameNodes(nodes, used),
     !.calls = [k \in DOMAIN @ |->
                  [@[k] EXCEPT !.clips = RenameClips(@, used),
                               !.made = RenameNodes(@, used)]],
     !.playStartTimeRef = IF dead THEN 0 ELSE @,
     !.sessionTotal = IF dead THEN 0 ELSE @,
     !.progressAnimationRef = FrameIndex(s.rafQueue, @),
     !.rafQueue = [i \in DOMAIN @ |-> [@[i] EXCEPT !.id = i]],
     !.clock = IF AtRest(s) THEN 0 ELSE @,
     !.stopped = @ /\ s.calls # <<>>]

\* A task runs the handler, then React renders and runs the effects.
Do(r) == LET post == Forget(Commit(St, r)) IN Bounded(post) /\ Set(post)

\* No continuation is waiting in the microtask queue.
Quiet == \A k \in DOMAIN calls : calls[k].pc = "decode"

\* A user gesture, or a second of the clock: an 'ended' event is dispatched
\* within one render quantum of the stop, so none is still queued by then.
Settled == Quiet /\ endedQ = 0

\* The clip list is edited between invocations of playTimelineFromTime, not
\* while one is suspended in a decode.
Editing == Settled /\ calls = <<>>

TogglePlay == Settled /\ Do(TogglePlaySt(St))

HandleTimelineClick == Settled /\ \E x \in 0..MaxStart : Do(HandleTimelineClickSt(St, x))

AddAudioToTimeline == Editing /\ \E a \in Assets : Do(AddAudioToTimelineSt(St, a))

HandleClipDrag ==
  /\ Editing
  /\ \E i \in DOMAIN clips, t \in 0..MaxDrag : Do(HandleClipDragSt(St, clips[i].id, t))

ConfirmDelete ==
  /\ Editing
  /\ \E i \in DOMAIN clips : Do(ConfirmDeleteSt(St, {clips[i].id}))

DecodeDone ==
  /\ Quiet
  /\ \E i \in DOMAIN calls :
       /\ calls[i].pc = "decode" /\ Decodable(calls[i].clips[calls[i].idx])
       /\ Do(AfterDecode(St, i))

\* The promise of a finished invocation settles (playTimeline's await returns).
PlayReturn ==
  \E i \in DOMAIN calls :
    calls[i].pc # "decode" /\ Do([St EXCEPT !.calls = Remove(@, i)])

Frame == Quiet /\ rafQueue # <<>> /\ Do(AnimationFrame(St))

EndedFire == Quiet /\ endedQ > 0 /\ Do(OnEnded(St))

\* The AudioContext clock advances while the context runs.
Tick ==
  /\ Settled /\ clock < MaxClock /\ ~AtRest(St)
  /\ \A k \in DOMAIN calls : clock - calls[k].T0 < MaxDecode
  /\ Do([St EXCEPT !.clock = @ + 1])

Init ==
  /\ clips = <<>> /\ currentTime = 0 /\ isPlaying = FALSE /\ isPlayingRef = FALSE
  /\ sourceNodes = <<>> /\ playStartTimeRef = 0 /\ progressAnimationRef = 0
  /\ audioBuffers = {} /\ clock = 0
  /\ rafQueue = <<>> /\ endedQ = 0 /\ calls = <<>> /\ sessionTotal = 0
  /\ stopped = FALSE
  /\ probes = <<>>
  /\ exports = <<>> /\ exported = NoExport
  /\ batch = NoBatch

Next ==
  \/ TogglePlay
  \/ HandleTimelineClick
  \/ AddAudioToTimeline
  \/ HandleClipDrag
  \/ ConfirmDelete
  \/ DecodeDone
  \/ PlayReturn
  \/ Frame
  \/ EndedFire
  \/ Tick

Spec == Init /\ [][Next]_vars

TypeOK ==
  /\ isPlaying = isPlayingRef
  /\ clock \in 0..MaxClock
  /\ currentTime \in 0..(2 * MaxClock)

\* ------------------------------------------------------------ clip editing
\* An addClip that appends without sorting: C37 tells it from AddClip.
AppendClip(cs, newClip) == Append(cs, newClip)

\* addClip's setClips(prev => [...prev, newClip].sort(...))
AddClip(cs, newClip) == SortByStart(Append(cs, newClip))

\* Two calls of addAudioToTimeline in one task, with no render between them.
\* Each reads clipsRef.current for lastClipEnd. React runs the updater of the
\* first setClips (which sets clipsRef.current) at once when the component has
\* no update pending, and at the next render otherwise: `eager` is that choice.
\* The updater of the second runs at the render in both cases.
AddAudioTwiceSt(s, a1, a2, eager) ==
  LET clip1 == [id |-> Fresh(UsedClipIds(s)), audioId |-> a1, blob |-> Blob,
                startTime |-> TotalDuration(s.clips), duration |-> AssetDuration(a1)]
      after1 == AddClip(s.clips, clip1)
      clipsRef == IF eager THEN after1 ELSE s.clips
      clip2 == [id |-> clip1.id + 1, audioId |-> a2, blob |-> Blob,
                startTime |-> TotalDuration(clipsRef), duration |-> AssetDuration(a2)]
  IN [s EXCEPT !.clips = AddClip(after1, clip2)]

\* addAudioToTimeline of an audio without a duration: an Audio element loads
\* the metadata; addClip's closure holds the audio and lastClipEnd.
Probe(s, a) == [audioId |-> a, startTime |-> TotalDuration(s.clips)]

\* 'loadedmetadata': addClip({...audio, duration: audioEl.duration})
LoadedMetadataSt(s, p) ==
  [s EXCEPT !.clips = AddClip(@, [id |-> Fresh(UsedClipIds(s)), audioId |-> p.audioId,
                                  blob |-> Blob,
                                  startTime |-> p.startTime,
                                  duration |-> AssetDuration(p.audioId)])]

\* 'error': addClip({...audio, duration: 0})
MetadataErrorSt(s, p) ==
  [s EXCEPT !.clips = AddClip(@, [id |-> Fresh(UsedClipIds(s)), audioId |-> p.audioId,
                                  blob |-> Blob,
                                  startTime |-> p.startTime, duration |-> 0])]

\* addAudioToTimelineAtTime of an audio whose duration is known
AddAudioToTimelineAtTimeSt(s, a, startTime) ==
  [s EXCEPT !.clips = AddClip(@, [id |-> Fresh(UsedClipIds(s)), audioId |-> a, blob |-> Blob,
                                  startTime |-> startTime,
                                  duration |-> AssetDuration(a)])]

\* JSON.parse(JSON.stringify(audio)), the way a dragged history item reaches
\* the drop handler: a Blob has no enumerable property of its own and is
\* written as {}, so the parsed audio.blob is a plain object; id, url and
\* duration are kept.
JsonRoundTrip(audio) == [audio EXCEPT !.blob = PlainObject]

\* The history item of an asset, as the AudioPlayer card holds it
HistoryAudio(a) == [id |-> a, blob |-> Blob, duration |-> AssetDuration(a)]

\* handleTimelineDrop of an audio whose duration is known, at position time
HandleTimelineDropSt(s, a, time) ==
  LET audio == JsonRoundTrip(HistoryAudio(a)) IN
  [s EXCEPT !.clips = SortByStart(Append(@, [id |-> Fresh(UsedClipIds(s)),
                                             audioId |-> audio.id, blob |-> audio.blob,
                                             startTime |-> Max2(0, time),
                                             duration |-> audio.duration]))]

\* applyIntervalSpacing: newStartTime of sortedSelectedClips[i], before
\* Math.max(0, .): currentEndTime + intervalSpacing.
RECURSIVE NewStartTime(_, _, _)
NewStartTime(sorted, i, spacing) ==
  IF i = 1 THEN sorted[1].startTime
  ELSE NewStartTime(sorted, i - 1, spacing) + sorted[i - 1].duration + spacing

\* newPositions.get(sortedSelectedClips[i].id)
NewPosition(sorted, i, spacing) ==
  IF i = 1 THEN sorted[1].startTime ELSE Max2(0, NewStartTime(sorted, i, spacing))

\* A spacing that lays out every clip, selected or not: C20 tells it from
\* ApplyIntervalSpacingSt.
SpaceEveryClip(s, sel, spacing) ==
  LET sorted == SortByStart(s.clips) IN
  IF sel = {} \/ sorted = <<>> THEN s
  ELSE [s EXCEPT !.clips = SortByStart(
         [k \in DOMAIN sorted |->
            [sorted[k] EXCEPT !.startTime = NewPosition(sorted, k, spacing)]])]

\* applyIntervalSpacing with selectedClips = sel and intervalSpacing = spacing
\* (the field and its button are rendered when more than one clip is selected)
ApplyIntervalSpacingSt(s, sel, spacing) ==
  LET sorted == SortByStart(SelectSeq(s.clips, LAMBDA c : c.id \in sel))
      Index(id) == CHOOSE i \in DOMAIN sorted : sorted[i].id = id
  IN IF sel = {} \/ sorted = <<>> THEN s
     ELSE [s EXCEPT !.clips = SortByStart(
            [k \in DOMAIN s.clips |->
               IF s.clips[k].id \in sel
               THEN [s.clips[k] EXCEPT
                       !.startTime = NewPosition(sorted, Index(s.clips[k].id), spacing)]
               ELSE s.clips[k]])]

\* The inputs of the editing handlers.
Positions == (0 - MaxNeg)..MaxPos
Spacings == (0 - MaxNegGap)..MaxGap
ClipIds == {clips[i].id : i \in DOMAIN clips}

\* A task edits the clip list; nothing plays meanwhile. Clip ids are renumbered
\* in the order of their creation.
EditDo(r, pr) ==
  /\ Len(r.clips) <= MaxTrack
  /\ \A i \in DOMAIN r.clips : r.clips[i].startTime <= MaxPos
  /\ Len(pr) <= MaxProbes
  /\ clips' = RenameClips(r.clips, {r.clips[i].id : i \in DOMAIN r.clips})
  /\ probes' = pr
  /\ UNCHANGED <<currentTime, isPlaying, isPlayingRef, sourceNodes, playStartTimeRef,
                 progressAnimationRef, audioBuffers, clock, rafQueue, endedQ,
                 calls, sessionTotal, stopped, exports, exported, batch>>

AppendKnown ==
  /\ Len(clips) < MaxTrack
  /\ \E a \in Assets : EditDo(AddAudioToTimelineSt(St, a), probes)

AppendTwice ==
  /\ Len(clips) + 1 < MaxTrack
  /\ \E a1 \in Assets, a2 \in Assets, eager \in BOOLEAN :
    EditDo(AddAudioTwiceSt(St, a1, a2, eager), probes)

AppendUnresolved ==
  /\ Len(probes) < MaxProbes
  /\ \E a \in Assets : EditDo(St, Append(probes, Probe(St, a)))

LoadedMetadata ==
  /\ Len(clips) < MaxTrack
  /\ \E i \in DOMAIN probes : EditDo(LoadedMetadataSt(St, probes[i]), Remove(probes, i))

MetadataError ==
  /\ Len(clips) < MaxTrack
  /\ \E i \in DOMAIN probes : EditDo(MetadataErrorSt(St, probes[i]), Remove(probes, i))

AddAudioToTimelineAtTime ==
  /\ Len(clips) < MaxTrack
  /\ \E a \in Assets, t \in Positions : EditDo(AddAudioToTimelineAtTimeSt(St, a, t), probes)

HandleTimelineDrop ==
  /\ Len(clips) < MaxTrack
  /\ \E a \in Assets, t \in Positions : EditDo(HandleTimelineDropSt(St, a, t), probes)

DragClip ==
  /\ clips # <<>>
  /\ \E id \in ClipIds, t \in Positions : EditDo(HandleClipDragSt(St, id, t), probes)

DeleteSelected ==
  /\ clips # <<>>
  /\ \E sel \in SUBSET ClipIds : sel # {} /\ EditDo(ConfirmDeleteSt(St, sel), probes)

ApplyIntervalSpacing ==
  /\ clips # <<>>
  /\ \E sel \in SUBSET ClipIds, g \in Spacings :
       Cardinality(sel) > 1 /\ EditDo(ApplyIntervalSpacingSt(St, sel, g), probes)

EditNext ==
  \/ AppendKnown
  \/ AppendTwice
  \/ AppendUnresolved
  \/ LoadedMetadata
  \/ MetadataError
  \/ AddAudioToTimelineAtTime
  \/ HandleTimelineDrop
  \/ DragClip
  \/ DeleteSelected
  \/ ApplyIntervalSpacing

EditSpec == Init /\ [][EditNext]_vars

\* ------------------------------------------- playback of a partial timeline
\* Timelines of two clips, one of which was added by the 'error' listener of
\* its metadata load (duration 0), moved anywhere from 0 to MaxStart.
PartialTimelines ==
  {cs \in [1..2 -> [id : 1..2, audioId : Assets, blob : {Blob}, startTime : 0..MaxStart,
                    duration : 0..MaxEnd]] :
     /\ cs[1].id = 1 /\ cs[2].id = 2
     /\ cs[1].startTime <= cs[2].startTime
     /\ \E i \in 1..2 : /\ cs[i].duration = 0
                        /\ cs[3 - i].duration = AssetDuration(cs[3 - i].audioId)
     /\ TotalDuration(cs) <= MaxEnd}

PlayInit ==
  /\ clips \in PartialTimelines
  /\ currentTime = 0 /\ isPlaying = FALSE /\ isPlayingRef = FALSE
  /\ sourceNodes = <<>> /\ playStartTimeRef = 0 /\ progressAnimationRef = 0
  /\ audioBuffers = {} /\ clock = 0
  /\ rafQueue = <<>> /\ endedQ = 0 /\ calls = <<>> /\ sessionTotal = 0
  /\ stopped = FALSE /\ probes = <<>> /\ batch = NoBatch
  /\ exports = <<>> /\ exported = NoExport

PlayNext ==
  \/ TogglePlay
  \/ HandleTimelineClick
  \/ DecodeDone
  \/ PlayReturn
  \/ Frame
  \/ EndedFire
  \/ Tick

PlaySpec == PlayInit /\ [][PlayNext]_vars

\* ------------------------------------------------------------- the encoder
\* A sample is a whole number of units: the value v stands for the float
\* v / SampleUnit, so that SampleUnit is 1.0. The sums of the samples of this
\* model are exact in a Float32Array.
SampleUnit == 2

\* sampleBlockSize of audioBufferToMp3
SampleBlockSize == 1152

\* The size of the WAV header
HeaderSize == 44

\* The most bytes one call of the MP3 encoder returns.
MaxChunk == 1

\* Math.floor and Math.ceil of the fraction n / d (d > 0), and the truncation
\* of ToInt16 and ToInt32
Floor(n, d) == n \div d
Ceil(n, d) == 0 - ((0 - n) \div d)
Trunc(n, d) == IF n >= 0 THEN n \div d ELSE 0 - ((0 - n) \div d)

RECURSIVE SumSeq(_)
SumSeq(seq) == IF seq = <<>> THEN 0 ELSE Head(seq) + SumSeq(Tail(seq))

\* A conversion that scales without clamping: C34 tells it from QuantizeSample.
ScaleUnclamped(v) ==
  IF v < 0 THEN Trunc(v * 32768, SampleUnit) ELSE Trunc(v * 32767, SampleUnit)

\* Math.max(-1, Math.min(1, sample)), then
\* sample < 0 ? sample * 0x8000 : sample * 0x7FFF, as setInt16 and an
\* Int16Array store it: truncated to an integer
QuantizeSample(v) ==
  LET sample == Max2(0 - SampleUnit, Min2(SampleUnit, v)) IN
  IF sample < 0 THEN Trunc(sample * 32768, SampleUnit)
  ELSE Trunc(sample * 32767, SampleUnit)

\* ToInt16: what an Int16Array element keeps of the integer stored into it
ToInt16(n) == ((n + 32768) % 65536) - 32768

\* The PCM of the primary path: samples[channel][i] of audioBufferToMp3
Int16Samples(buffer) ==
  [channel \in 1..buffer.numberOfChannels |->
     [i \in 1..buffer.length |-> ToInt16(QuantizeSample(buffer.channels[channel][i]))]]

\* DataView.setUint32(., n, true), setUint16(., n, true), setInt16(., n, true):
\* the low bytes of n first
Uint32LE(n) == <<n % 256, (n \div 256) % 256, (n \div 65536) % 256, (n \div 16777216) % 256>>
Uint16LE(n) == <<n % 256, (n \div 256) % 256>>
Int16LE(n) == Uint16LE(n % 65536)

\* The char codes writeString stores
RIFF == <<82, 73, 70, 70>>
WAVE == <<87, 65, 86, 69>>
FmtChunk == <<102, 109, 116, 32>>
DataChunk == <<100, 97, 116, 97>>

\* The bytes bs stored at the byte offset of the view
SetBytes(view, offset, bs) ==
  [k \in DOMAIN view |->
     IF offset < k /\ k <= offset + Len(bs) THEN bs[k - offset] ELSE view[k]]

\* The writes of the WAV header, each an offset and its bytes
WavHeader(buffer) ==
  LET dataSize == buffer.length * buffer.numberOfChannels * 2 IN
  << <<0, RIFF>>, <<4, Uint32LE(36 + dataSize)>>, <<8, WAVE>>, <<12, FmtChunk>>,
     <<16, Uint32LE(16)>>, <<20, Uint16LE(1)>>, <<22, Uint16LE(buffer.numberOfChannels)>>,
     <<24, Uint32LE(buffer.sampleRate)>>,
     <<28, Uint32LE(buffer.sampleRate * buffer.numberOfChannels * 2)>>,
     <<32, Uint16LE(buffer.numberOfChannels * 2)>>, <<34, Uint16LE(16)>>,
     <<36, DataChunk>>, <<40, Uint32LE(dataSize)>> >>

RECURSIVE WriteAll(_, _)
WriteAll(view, writes) ==
  IF writes = <<>> THEN view
  ELSE WriteAll(SetBytes(view, Head(writes)[1], Head(writes)[2]), Tail(writes))

\* Samples written channel after channel, each channel whole: C29 tells it
\* from WriteSamples.
RECURSIVE WriteSamplesPlanar(_, _, _, _, _)
WriteSamplesPlanar(view, buffer, i, channel, offset) ==
  IF channel >= buffer.numberOfChannels THEN view
  ELSE IF i >= buffer.length THEN WriteSamplesPlanar(view, buffer, 0, channel + 1, offset)
  ELSE WriteSamplesPlanar(
         SetBytes(view, offset, Int16LE(QuantizeSample(buffer.channels[channel + 1][i + 1]))),
         buffer, i + 1, channel, offset + 2)

\* for (i < length) for (channel < numberOfChannels) { setInt16(offset, ...); offset += 2 }
RECURSIVE WriteSamples(_, _, _, _, _)
WriteSamples(view, buffer, i, channel, offset) ==
  IF i >= buffer.length THEN view
  ELSE IF channel >= buffer.numberOfChannels THEN WriteSamples(view, buffer, i + 1, 0, offset)
  ELSE WriteSamples(
         SetBytes(view, offset, Int16LE(QuantizeSample(buffer.channels[channel + 1][i + 1]))),
         buffer, i, channel + 1, offset + 2)

\* audioBufferToWav
AudioBufferToWav(buffer) ==
  LET arrayBuffer == [k \in 1..(HeaderSize + buffer.length * buffer.numberOfChannels * 2) |-> 0]
      bytes == WriteSamples(WriteAll(arrayBuffer, WavHeader(buffer)), buffer, 0, 0, HeaderSize)
  IN [type |-> "audio/wav", size |-> Len(bytes), bytes |-> bytes]

\* What the primary path finds as lamejs: "rejected" (the script failed to
\* load, or left no global Lame), "no-encoder" (Lame without Mp3Encoder),
\* "throws" (the constructor, encodeBuffer or flush throws), or an encoder
\* whose encodeBuffer returns `block` bytes and whose flush returns `flush`.
Lames ==
  {[kind |-> k, block |-> 0, flush |-> 0] : k \in {"rejected", "no-encoder", "throws"}}
    \cup {[kind |-> "encoder", block |-> b, flush |-> f] : b, f \in 0..MaxChunk}

\* window at the call of audioBufferToMp3: Lame is there, or is to be loaded
Windows ==
  {[present |-> TRUE, lame |-> l] : l \in {l \in Lames : l.kind # "rejected"}}
    \cup {[present |-> FALSE, lame |-> NoLame]}

\* The lengths of the chunks pushed to mp3Data: one per block of
\* sampleBlockSize samples, then the flush, the empty ones left out
Mp3Data(buffer, lame) ==
  SelectSeq([b \in 1..Ceil(buffer.length, SampleBlockSize) |-> lame.block] \o <<lame.flush>>,
            LAMBDA n : n > 0)

\* A primary path that returns whatever the encoder gave: C28 tells it from
\* Primary.
PrimaryKeepingEmpty(buffer, lame) ==
  IF lame.kind # "encoder" THEN [ok |-> FALSE, blob |-> NoBlob]
  ELSE [ok |-> TRUE, blob |-> [type |-> "audio/mpeg", bytes |-> <<>>,
                               size |-> SumSeq(Mp3Data(buffer, lame))]]

\* The try block of audioBufferToMp3: ok is FALSE when it throws. The bytes
\* of an MP3 blob are the encoder's; the model keeps their number.
Primary(buffer, lame) ==
  IF lame.kind # "encoder" THEN [ok |-> FALSE, blob |-> NoBlob]
  ELSE LET mp3Data == Mp3Data(buffer, lame) IN
       IF mp3Data = <<>> \/ SumSeq(mp3Data) = 0 THEN [ok |-> FALSE, blob |-> NoBlob]
       ELSE [ok |-> TRUE, blob |-> [type |-> "audio/mpeg", bytes |-> <<>>,
                                    size |-> SumSeq(mp3Data)]]

\* An encoder without the catch block: C27 tells it from AudioBufferToMp3.
Mp3OrThrow(buffer, lame) == Primary(buffer, lame)

\* audioBufferToMp3, lamejs being `lame`: ok is FALSE when the promise rejects
AudioBufferToMp3(buffer, lame) ==
  LET p == Primary(buffer, lame) IN
  IF p.ok THEN p ELSE [ok |-> TRUE, blob |-> AudioBufferToWav(buffer)]

\* audioBlob.type.includes('mpeg') || audioBlob.type.includes('mp3')
IsMp3(blob) == blob.type \in {"audio/mpeg", "audio/mp3"}

\* the extension of a.download
Extension(blob) == IF IsMp3(blob) THEN "mp3" ELSE "wav"

\* ------------------------------------------------------------- exportAudio
\* audioContextRef.current.sampleRate, in samples per second
SampleRate == 2

\* The channel data decodeAudioData returns for an asset:
\* AssetDuration(a) * SampleRate samples
SourceData(a) ==
  [i \in 1..(AssetDuration(a) * SampleRate) |->
     IF a = "A" THEN <<2, -1, 1, -2>>[((i - 1) % 4) + 1] ELSE <<2, 1>>[((i - 1) % 2) + 1]]

\* Math.ceil(totalDuration * sampleRate) and Math.floor(clip.startTime * sampleRate),
\* the time being num / den seconds
TotalSamples(num, den) == Ceil(num * SampleRate, den)
StartSample(num, den) == Floor(num * SampleRate, den)

\* createBuffer(1, totalSamples, sampleRate), filled with 0
NewBuffer(totalSamples) ==
  [length |-> totalSamples, numberOfChannels |-> 1, sampleRate |-> SampleRate,
   channels |-> <<[i \in 1..totalSamples |-> 0]>>]

\* A mix that keeps every sum within [-1, 1]: C23 tells it from AddSamples.
AddSamplesClamped(channelData, startSample, sourceData, totalSamples) ==
  LET length == Min2(Len(sourceData), totalSamples - startSample) IN
  [k \in DOMAIN channelData |->
     LET i == (k - 1) - startSample IN
     IF 0 <= i /\ i < length
     THEN Max2(0 - SampleUnit, Min2(SampleUnit, channelData[k] + sourceData[i + 1]))
     ELSE channelData[k]]

\* A mix that writes each clip one sample late: C24 tells it from AddSamples.
AddSamplesLate(channelData, startSample, sourceData, totalSamples) ==
  LET length == Min2(Len(sourceData), totalSamples - startSample) IN
  [k \in DOMAIN channelData |->
     LET i == (k - 2) - startSample IN
     IF 0 <= i /\ i < length THEN channelData[k] + sourceData[i + 1] ELSE channelData[k]]

\* A mix in which a clip replaces what is there: C25 tells it from AddSamples.
PutSamples(channelData, startSample, sourceData, totalSamples) ==
  LET length == Min2(Len(sourceData), totalSamples - startSample) IN
  [k \in DOMAIN channelData |->
     LET i == (k - 1) - startSample IN
     IF 0 <= i /\ i < length THEN sourceData[i + 1] ELSE channelData[k]]

\* for (i < length) if (startSample + i < channelData.length)
\*   channelData[startSample + i] += sourceData[i]
\* channelData[k] is the element of index k - 1; a store at a negative index
\* of a Float32Array stores nothing.
AddSamples(channelData, startSample, sourceData, totalSamples) ==
  LET length == Min2(Len(sourceData), totalSamples - startSample) IN
  [k \in DOMAIN channelData |->
     LET i == (k - 1) - startSample IN
     IF 0 <= i /\ i < length THEN channelData[k] + sourceData[i + 1] ELSE channelData[k]]

\* A loop that reads the clip from the clip list as it is now: C26 tells it
\* from ClipAt.
LiveClipAt(s, e) ==
  LET live == SortByStart(s.clips) IN
  IF e.idx <= Len(live) THEN live[e.idx] ELSE e.sortedClips[e.idx]

\* The clip the loop of an invocation of exportAudio is at. The invocation e
\* holds `clips` (the clip list of its closure), sortedClips, totalSamples,
\* audioBuffer and idx; pc is "decode" (awaiting loadAudioBuffer for
\* sortedClips[idx]) or "encode" (audioBufferToMp3 awaiting the script).
ClipAt(s, e) == e.sortedClips[e.idx]

\* The body of the loop for the clip, its buffer being there
MixClip(e, clip) ==
  [e EXCEPT !.audioBuffer.channels[1] =
              AddSamples(@, StartSample(clip.startTime, 1), SourceData(clip.audioId),
                         e.totalSamples),
            !.idx = @ + 1]

\* The loop of exportAudio over a sorted clip list, every buffer being there
RECURSIVE MixAll(_, _)
MixAll(e, sorted) ==
  IF sorted = <<>> THEN e ELSE MixAll(MixClip(e, Head(sorted)), Tail(sorted))

\* The buffer exportAudio mixes from the clip list cs when nothing suspends it
Render(cs) ==
  LET totalSamples == TotalSamples(TotalDuration(cs), 1) IN
  MixAll([audioBuffer |-> NewBuffer(totalSamples), totalSamples |-> totalSamples, idx |-> 1],
         SortByStart(cs)).audioBuffer

\* exportAudio after the loop: the blob is there, or the catch block alerts.
ExportFinish(s, e, lame) ==
  LET r == AudioBufferToMp3(e.audioBuffer, lame) IN
  IF r.ok
  THEN [s EXCEPT !.exported = [kind |-> "blob", clips |-> e.clips,
                               audioBuffer |-> e.audioBuffer, blob |-> r.blob,
                               download |-> Extension(r.blob), lame |-> lame,
                               failed |-> ""]]
  ELSE [s EXCEPT !.exported = [NoExport EXCEPT !.kind = "alert", !.clips = e.clips,
                                               !.lame = lame]]

\* await audioBufferToMp3(audioBuffer): with window.Lame there it runs to its
\* end, otherwise it awaits the load of the script.
Encode(s, e, w) ==
  IF w.present THEN ExportFinish(s, e, w.lame)
  ELSE [s EXCEPT !.exports = Append(@, [e EXCEPT !.pc = "encode"])]

\* for (const clip of sortedClips) { ... }, from sortedClips[idx] to the next
\* clip whose buffer is not in the cache, or to the end and the encoder.
RECURSIVE MixLoop(_, _, _)
MixLoop(s, e, w) ==
  IF e.idx > Len(e.sortedClips) THEN Encode(s, e, w)
  ELSE LET clip == ClipAt(s, e) IN
    IF ~HasBuffer(s, clip.audioId)
    THEN [s EXCEPT !.exports = Append(@, [e EXCEPT !.pc = "decode"])]
    ELSE MixLoop(s, MixClip(e, clip), w)

\* exportAudio(), to its first suspension. createBuffer throws for a length
\* that is not at least 1.
ExportAudioSt(s, w) ==
  IF s.clips = <<>> THEN [s EXCEPT !.exported = [NoExport EXCEPT !.kind = "return"]]
  ELSE LET sortedClips == SortByStart(s.clips)
           totalSamples == TotalSamples(TotalDuration(sortedClips), 1)
           e == [pc |-> "decode", clips |-> s.clips, sortedClips |-> sortedClips,
                 totalSamples |-> totalSamples, audioBuffer |-> NewBuffer(totalSamples),
                 idx |-> 1]
       IN IF totalSamples < 1
          THEN [s EXCEPT !.exported = [NoExport EXCEPT !.kind = "alert", !.clips = s.clips]]
          ELSE MixLoop(s, e, w)

\* loadAudioBuffer's decodeAudioData returns to exports[i]: the buffer enters
\* the cache, the clip is mixed and the loop goes on.
AfterExportDecode(s, i, w) ==
  LET e == s.exports[i]
      clip == ClipAt(s, e)
  IN MixLoop([s EXCEPT !.audioBuffers = @ \cup {clip.audioId}, !.exports = Remove(@, i)],
             MixClip(e, clip), w)

\* The script's onload or onerror: audioBufferToMp3 goes on with lamejs = lame.
AfterScript(s, i, lame) ==
  ExportFinish([s EXCEPT !.exports = Remove(@, i)], s.exports[i], lame)

\* The part of the state exportAudio reads and writes
XSt == [clips |-> clips, audioBuffers |-> audioBuffers, exports |-> exports,
        exported |-> exported]

ExportDo(r) ==
  /\ clips' = r.clips /\ audioBuffers' = r.audioBuffers
  /\ exports' = r.exports /\ exported' = r.exported
  /\ UNCHANGED <<currentTime, isPlaying, isPlayingRef, sourceNodes, playStartTimeRef,
                 progressAnimationRef, clock, rafQueue, endedQ, calls, sessionTotal,
                 stopped, probes, batch>>

\* The invocations of exportAudio in flight at once, and the clips of the
\* timeline an export starts from.
MaxExports == 1
MaxMix == 2

\* A click on the export button, once in a behaviour
ExportAudio ==
  /\ exported.kind = "none" /\ Len(exports) < MaxExports
  /\ \E w \in Windows : ExportDo(ExportAudioSt(XSt, w))

ExportDecoded ==
  /\ exports # <<>>
  /\ \E i \in DOMAIN exports, w \in Windows :
       /\ exports[i].pc = "decode" /\ Decodable(ClipAt(XSt, exports[i]))
       /\ ExportDo(AfterExportDecode(XSt, i, w))

ScriptSettled ==
  /\ exports # <<>>
  /\ \E i \in DOMAIN exports, lame \in Lames :
       exports[i].pc = "encode" /\ ExportDo(AfterScript(XSt, i, lame))

\* An invocation of exportAudio is suspended, and the clip list is still the
\* one of its closure: the clip list is edited once meanwhile.
Suspended == exports # <<>> /\ \A i \in DOMAIN exports : exports[i].clips = clips

AppendWhileExporting == Suspended /\ AppendKnown
InsertWhileExporting == Suspended /\ AddAudioToTimelineAtTime
DragWhileExporting == Suspended /\ DragClip
DeleteWhileExporting == Suspended /\ DeleteSelected
SpaceWhileExporting == Suspended /\ ApplyIntervalSpacing

\* Timelines of up to MaxMix clips of known duration, sorted by start, with
\* any buffers in the cache (decoded by earlier playback).
MixTimelines ==
  UNION {{[i \in 1..n |-> [id |-> i, audioId |-> as[i], blob |-> Blob, startTime |-> ts[i],
                           duration |-> AssetDuration(as[i])]] :
            as \in [1..n -> Assets],
            ts \in {t \in [1..n -> Positions] : \A i \in 1..(n - 1) : t[i] <= t[i + 1]}} :
         n \in 0..MaxMix}

MixInit ==
  /\ clips \in MixTimelines /\ audioBuffers \in SUBSET Assets
  /\ currentTime = 0 /\ isPlaying = FALSE /\ isPlayingRef = FALSE
  /\ sourceNodes = <<>> /\ playStartTimeRef = 0 /\ progressAnimationRef = 0
  /\ clock = 0 /\ rafQueue = <<>> /\ endedQ = 0 /\ calls = <<>> /\ sessionTotal = 0
  /\ stopped = FALSE /\ probes = <<>> /\ batch = NoBatch
  /\ exports = <<>> /\ exported = NoExport

MixNext ==
  \/ ExportAudio
  \/ ExportDecoded
  \/ ScriptSettled
  \/ AppendWhileExporting
  \/ InsertWhileExporting
  \/ DragWhileExporting
  \/ DeleteWhileExporting
  \/ SpaceWhileExporting

MixSpec == MixInit /\ [][MixNext]_vars

\* ------------------------------------------- audioBufferToMp3 on any buffer
\* The frames, channels and sample magnitude (in units) of the buffers given
\* to the encoder.
MaxFrames == 2
MaxChannels == 2
MaxSample == 3

\* AudioBuffer.sampleRate
Rates == {8000, 44100}

Buffers ==
  UNION {{[length |-> d[1], numberOfChannels |-> d[2], sampleRate |-> R, channels |-> ch] :
            ch \in [1..d[2] -> [1..d[1] -> (0 - MaxSample)..MaxSample]], R \in Rates} :
         d \in (1..MaxFrames) \X (1..MaxChannels)}

\* audioBufferToMp3 has been called, with any buffer or with the buffer
\* exportAudio mixes from a timeline, and awaits the script.
Encoding ==
  {[pc |-> "encode", clips |-> <<>>, sortedClips |-> <<>>, totalSamples |-> b.length,
    audioBuffer |-> b, idx |-> 1] : b \in Buffers}
    \cup {[pc |-> "encode", clips |-> cs, sortedClips |-> SortByStart(cs),
            totalSamples |-> Render(cs).length, audioBuffer |-> Render(cs),
            idx |-> Len(cs) + 1] :
             cs \in {c \in MixTimelines : c # <<>> /\ TotalSamples(TotalDuration(c), 1) >= 1}}

EncodeInit ==
  /\ exports \in {<<e>> : e \in Encoding}
  /\ clips = <<>> /\ audioBuffers = {} /\ exported = NoExport
  /\ currentTime = 0 /\ isPlaying = FALSE /\ isPlayingRef = FALSE
  /\ sourceNodes = <<>> /\ playStartTimeRef = 0 /\ progressAnimationRef = 0
  /\ clock = 0 /\ rafQueue = <<>> /\ endedQ = 0 /\ calls = <<>> /\ sessionTotal = 0
  /\ stopped = FALSE /\ probes = <<>> /\ batch = NoBatch

EncodeNext == ScriptSettled

EncodeSpec == EncodeInit /\ [][EncodeNext]_vars

\* ------------------------------------------------ playback and export
\* Playback and an export of one timeline of MaxClips clips that begins at 0,
\* over one cache that is empty at first.
CacheTimelines ==
  {cs \in MixTimelines :
     /\ Len(cs) = MaxClips /\ cs[1].startTime = 0 /\ TotalDuration(cs) <= MaxEnd}

CacheInit ==
  /\ clips \in CacheTimelines /\ audioBuffers = {}
  /\ currentTime = 0 /\ isPlaying = FALSE /\ isPlayingRef = FALSE
  /\ sourceNodes = <<>> /\ playStartTimeRef = 0 /\ progressAnimationRef = 0
  /\ clock = 0 /\ rafQueue = <<>> /\ endedQ = 0 /\ calls = <<>> /\ sessionTotal = 0
  /\ stopped = FALSE /\ probes = <<>> /\ batch = NoBatch
  /\ exports = <<>> /\ exported = NoExport

CacheNext ==
  \/ TogglePlay
  \/ HandleTimelineClick
  \/ DecodeDone
  \/ PlayReturn
  \/ Frame
  \/ EndedFire
  \/ Tick
  \/ ExportAudio
  \/ ExportDecoded
  \/ ScriptSettled

CacheSpec == CacheInit /\ [][CacheNext]_vars

\* ------------------------------------------------------- a decode that fails
\* A cache that keeps an entry for the asset whose decode failed: C31 tells it
\* from CacheAfterRejection.
CachePoisoned(s, audioId) == s.audioBuffers \cup {audioId}

\* loadAudioBuffer when arrayBuffer() or decodeAudioData rejects: the line
\* audioBuffersRef.current.set(audio.id, buffer) is not reached.
CacheAfterRejection(s, audioId) == s.audioBuffers

\* The catch block of playTimelineFromTime; the promise of the invocation
\* settles next.
PlayCatch(s, c) ==
  [s EXCEPT !.isPlaying = FALSE, !.isPlayingRef = FALSE,
            !.calls = Append(@, [c EXCEPT !.pc = "caught"])]

\* The await of loadAudioBuffer in the loop of calls[i] throws.
DecodeRejected(s, i) ==
  LET c == s.calls[i] IN
  PlayCatch([s EXCEPT !.audioBuffers = CacheAfterRejection(s, c.clips[c.idx].audioId),
                      !.calls = Remove(@, i)], c)

\* The await of loadAudioBuffer in the loop of exports[i] throws: the catch
\* block of exportAudio alerts.
ExportDecodeRejected(s, i) ==
  LET e == s.exports[i]
      clip == ClipAt(s, e)
  IN [s EXCEPT !.audioBuffers = CacheAfterRejection(s, clip.audioId),
               !.exports = Remove(@, i),
               !.exported = [NoExport EXCEPT !.kind = "alert", !.clips = e.clips,
                                             !.failed = clip.audioId]]

DecodeFailed ==
  /\ Quiet
  /\ \E i \in DOMAIN calls : calls[i].pc = "decode" /\ Do(DecodeRejected(St, i))

ExportDecodeFailed ==
  /\ exports # <<>>
  /\ \E i \in DOMAIN exports :
       exports[i].pc = "decode" /\ ExportDo(ExportDecodeRejected(XSt, i))

\* Playback and an export of one timeline whose decodes may fail.
FailNext ==
  \/ TogglePlay
  \/ DecodeDone
  \/ DecodeFailed
  \/ PlayReturn
  \/ Frame
  \/ EndedFire
  \/ Tick
  \/ ExportAudio
  \/ ExportDecoded
  \/ ExportDecodeFailed
  \/ ScriptSettled

FailSpec == CacheInit /\ [][FailNext]_vars

\* ------------------------------------------------ a history item dropped
\* loadAudioBuffer of a clip whose audio.blob is a plain object: arrayBuffer()
\* throws, in a play() and in an export.
BlobMissing ==
  /\ Quiet
  /\ \E i \in DOMAIN calls :
       /\ calls[i].pc = "decode" /\ ~Decodable(calls[i].clips[calls[i].idx])
       /\ Do(DecodeRejected(St, i))

ExportBlobMissing ==
  /\ exports # <<>>
  /\ \E i \in DOMAIN exports :
       /\ exports[i].pc = "decode" /\ ~Decodable(ClipAt(XSt, exports[i]))
       /\ ExportDo(ExportDecodeRejected(XSt, i))

\* A history item is dropped on the timeline while nothing is decoding.
DropOnTimeline ==
  /\ Editing /\ exports = <<>>
  /\ \E a \in Assets, t \in 0..MaxStart : Do(HandleTimelineDropSt(St, a, t))

\* Items are appended or dropped, and the timeline is played and exported;
\* the bytes of every asset are valid audio.
DropNext ==
  \/ AddAudioToTimeline
  \/ DropOnTimeline
  \/ TogglePlay
  \/ DecodeDone
  \/ BlobMissing
  \/ PlayReturn
  \/ Frame
  \/ EndedFire
  \/ Tick
  \/ ExportAudio
  \/ ExportDecoded
  \/ ExportBlobMissing
  \/ ScriptSettled

DropSpec == Init /\ [][DropNext]_vars

\* ------------------------------------------------------- handleBatchImport
\* The items of a batch and the seconds of a break. An item names the asset
\* its synthesis gives (its duration is the asset's), its breakTime (0 also
\* for an absent one: item.breakTime || 0) and its outcome: "ok", "fails"
\* (generateSpeech throws) or "no-duration" (the metadata of the audio does
\* not load, and the duration resolves to 0).
MaxItems == 3
MaxBreak == 1

Items ==
  [audio : Assets, breakTime : 0..MaxBreak, outcome : {"ok", "fails", "no-duration"}]

Batches == UNION {[1..n -> Items] : n \in 0..MaxItems}

\* An offset that leaves the break out: C36 tells it from NextTimelineTime.
NextTimelineTimeNoBreak(t, item) == t + AssetDuration(item.audio)

\* currentTimelineTime += duration + (item.breakTime || 0)
NextTimelineTime(t, item) == t + AssetDuration(item.audio) + item.breakTime

\* One turn of the loop of handleBatchImport, from generateSpeech to the end
\* of the try or of the catch block. The state s holds clips, probes and batch.
ImportItemSt(s) ==
  LET item == s.batch.items[s.batch.i]
      t == s.batch.currentTimelineTime
      next == [s EXCEPT !.batch.i = @ + 1]
  IN IF item.outcome = "fails" THEN next
     ELSE IF item.outcome = "ok"
     THEN [next EXCEPT
             !.clips = AddAudioToTimelineAtTimeSt(s, item.audio, t).clips,
             !.batch.currentTimelineTime = NextTimelineTime(t, item)]
     ELSE [next EXCEPT !.probes = Append(@, Probe(s, item.audio))]

\* The part of the state handleBatchImport and the metadata listeners read
\* and change
BSt == [clips |-> clips, probes |-> probes, batch |-> batch,
        sourceNodes |-> sourceNodes, calls |-> calls]

BatchDo(r) ==
  /\ clips' = RenameClips(r.clips, {r.clips[i].id : i \in DOMAIN r.clips})
  /\ probes' = r.probes /\ batch' = r.batch
  /\ UNCHANGED <<currentTime, isPlaying, isPlayingRef, sourceNodes, playStartTimeRef,
                 progressAnimationRef, audioBuffers, clock, rafQueue, endedQ,
                 calls, sessionTotal, stopped, exports, exported>>

ImportItem ==
  /\ batch.i <= Len(batch.items)
  /\ BatchDo(ImportItemSt(BSt))

\* The 'loadedmetadata' or the 'error' listener of a clip added without a
\* duration runs between two items.
ImportLoadedMetadata ==
  /\ probes # <<>>
  /\ \E i \in DOMAIN probes :
       BatchDo([BSt EXCEPT !.clips = LoadedMetadataSt(BSt, probes[i]).clips,
                           !.probes = Remove(@, i)])

ImportMetadataError ==
  /\ probes # <<>>
  /\ \E i \in DOMAIN probes :
       BatchDo([BSt EXCEPT !.clips = MetadataErrorSt(BSt, probes[i]).clips,
                           !.probes = Remove(@, i)])

BatchInit ==
  /\ batch \in {[items |-> b, i |-> 1, currentTimelineTime |-> 0] : b \in Batches}
  /\ clips = <<>> /\ audioBuffers = {} /\ exports = <<>> /\ exported = NoExport
  /\ currentTime = 0 /\ isPlaying = FALSE /\ isPlayingRef = FALSE
  /\ sourceNodes = <<>> /\ playStartTimeRef = 0 /\ progressAnimationRef = 0
  /\ clock = 0 /\ rafQueue = <<>> /\ endedQ = 0 /\ calls = <<>> /\ sessionTotal = 0
  /\ stopped = FALSE /\ probes = <<>>

BatchNext ==
  \/ ImportItem
  \/ ImportLoadedMetadata
  \/ ImportMetadataError

BatchSpec == BatchInit /\ [][BatchNext]_vars

\* ------------------------------------- exportAudio on one clip, at any start
\* A clip that starts at num/den seconds, den a power of two up to
\* 2^MaxDenLog and num in -MaxNegNum..MaxNum; audio.duration is the duration of
\* the asset, or 0 when the metadata never loaded.
MaxNum == 4
MaxNegNum == 2
MaxDenLog == 3

Dens == {2^k : k \in 0..MaxDenLog}

\* Math.round(n / d): the nearest integer, a half rounded up.
Round(n, d) == Floor(2 * n + d, 2 * d)

\* The indices at which the loop of exportAudio runs
\* channelData[startSample + i] += sourceData[i]: i < length and
\* startSample + i < channelData.length.
WriteIndices(startSample, sourceData, totalSamples, channelLength) ==
  LET length == Min2(Len(sourceData), totalSamples - startSample) IN
  {startSample + i : i \in {j \in 0..(length - 1) : startSample + j < channelLength}}

\* An invocation of exportAudio on a timeline of one clip, whose times are in
\* units of 1/den second, at pc "alloc": before createBuffer.
Placing ==
  UNION {{[pc |-> "alloc",
           clips |-> <<[id |-> 1, audioId |-> a, blob |-> Blob, startTime |-> num,
                        duration |-> dur * den]>>,
           sortedClips |-> <<[id |-> 1, audioId |-> a, blob |-> Blob, startTime |-> num,
                              duration |-> dur * den]>>,
           totalSamples |-> TotalSamples(num + dur * den, den),
           audioBuffer |-> NoBuffer, idx |-> 1, den |-> den] :
            num \in (0 - MaxNegNum)..MaxNum, den \in Dens, dur \in {0, AssetDuration(a)}} :
         a \in Assets}

\* createBuffer(1, totalSamples, sampleRate) ... channelData.fill(0): it throws
\* for a length that is not at least 1, and the catch block alerts.
AllocateSt(s, i) ==
  LET e == s.exports[i] IN
  IF e.totalSamples < 1
  THEN [s EXCEPT !.exports = Remove(@, i),
                 !.exported = [NoExport EXCEPT !.kind = "alert", !.clips = e.clips]]
  ELSE [s EXCEPT !.exports[i] = [e EXCEPT !.pc = "mix",
                                          !.audioBuffer = NewBuffer(e.totalSamples)]]

\* The body of the loop for the clip, whose start is clip.startTime / den
PlaceClip(e, clip, den) ==
  [e EXCEPT !.audioBuffer.channels[1] =
              AddSamples(@, StartSample(clip.startTime, den), SourceData(clip.audioId),
                         e.totalSamples),
            !.idx = @ + 1, !.pc = "mixed"]

PlaceClipSt(s, i) ==
  LET e == s.exports[i] IN
  [s EXCEPT !.exports[i] = PlaceClip(e, e.sortedClips[e.idx], e.den)]

Allocate ==
  /\ exports # <<>>
  /\ \E i \in DOMAIN exports : exports[i].pc = "alloc" /\ ExportDo(AllocateSt(XSt, i))

MixOne ==
  /\ exports # <<>>
  /\ \E i \in DOMAIN exports : exports[i].pc = "mix" /\ ExportDo(PlaceClipSt(XSt, i))

PlaceInit ==
  /\ exports \in {<<e>> : e \in Placing}
  /\ clips = exports[1].clips /\ audioBuffers = Assets /\ exported = NoExport
  /\ currentTime = 0 /\ isPlaying = FALSE /\ isPlayingRef = FALSE
  /\ sourceNodes = <<>> /\ playStartTimeRef = 0 /\ progressAnimationRef = 0
  /\ clock = 0 /\ rafQueue = <<>> /\ endedQ = 0 /\ calls = <<>> /\ sessionTotal = 0
  /\ stopped = FALSE /\ probes = <<>> /\ batch = NoBatch

PlaceNext ==
  \/ Allocate
  \/ MixOne

PlaceSpec == PlaceInit /\ [][PlaceNext]_vars

\* ------------------------------------------------------------------ claims
\* The asset whose decode an invocation suspended in loadAudioBuffer awaits:
\* each such invocation has called decodeAudioData itself.
Decoding(c) == c.clips[c.idx].audioId

\* C1: for any asset at most one decode is in flight at any time: two
\* invocations suspended in a decode never await the decode of the same asset.
C1_OneDecodePerAsset ==
  \A i, j \in DOMAIN calls :
    (i # j /\ calls[i].pc = "decode" /\ calls[j].pc = "decode")
      => Decoding(calls[i]) # Decoding(calls[j])

\* C2: every source an invocation has started emits buffer position b at the
\* clock time Z + clip.startTime + b, with Z = T0 - f the zero-time reference
\* of that invocation, however long the decodes took. A source emits position
\* off + d at the instant at + d.
C2_Synchronized ==
  \A k \in DOMAIN calls : \A i \in DOMAIN calls[k].made : \A j \in DOMAIN calls[k].clips :
    LET c == calls[k] IN
    c.clips[j].id = c.made[i].clip
      => c.made[i].at - c.made[i].off = (c.T0 - c.f) + c.clips[j].startTime

\* C3: after stopPlayback has returned and until the next play or seek call,
\* no source is emitting or scheduled to emit.
C3_SilentAfterStop == stopped => LiveNodes(St) = {}

\* C4: at most one animation-frame callback of the polling loop is pending at
\* any time, and none while not playing (after stop or natural completion).
C4_OnePollingLoop ==
  /\ Len(rafQueue) <= 1
  /\ ~isPlaying => rafQueue = <<>>

\* The step is togglePlay's call of stopPlayback.
StopStep == isPlaying /\ StNext = Forget(Commit(St, StopPlayback(St)))

\* C5: a session ends by itself (isPlaying falls without a stop) only once the
\* position clock - playStartTimeRef has reached the total computed at that
\* session's start, and the reported position is then reset to 0.
C5_NaturalCompletion ==
  [][(isPlaying /\ ~isPlaying' /\ ~StopStep)
       => (clock - playStartTimeRef >= sessionTotal /\ currentTime' = 0)]_vars

\* C6: every invocation of playTimelineFromTime has f = startOffset clamped to
\* [0, total], T0 a clock reading not later than now, and for every clip of its
\* list: no source if the clip ends at or before f; exactly one source once the
\* loop has passed a clip that ends after f; and a source of a clip is started
\* with (T0 + (start - f), 0) if f <= start, with (T0, f - start) otherwise.
C6_SchedulingRule ==
  \A k \in DOMAIN calls :
    LET c == calls[k] IN
    /\ c.total = TotalDuration(c.clips)
    /\ c.f = (IF c.startOffset < 0 THEN 0
              ELSE IF c.startOffset > c.total THEN c.total ELSE c.startOffset)
    /\ c.T0 <= clock
    /\ \A j \in DOMAIN c.clips :
         LET clip == c.clips[j]
             ns == {i \in DOMAIN c.made : c.made[i].clip = clip.id}
         IN /\ clip.startTime + clip.duration <= c.f => ns = {}
            /\ (clip.startTime + clip.duration > c.f /\ (c.pc = "done" \/ j < c.idx))
                 => Cardinality(ns) = 1
            /\ \A i \in ns :
                 IF c.f <= clip.startTime
                 THEN c.made[i].when = c.T0 + (clip.startTime - c.f) /\ c.made[i].off = 0
                 ELSE c.made[i].when = c.T0 /\ c.made[i].off = c.f - clip.startTime

\* B = [0,1), A = [1,3), play(2): only A is started, at once, from offset 1.
C6_Witness ==
  \E k \in DOMAIN calls :
    LET c == calls[k] IN
    /\ c.pc = "done" /\ c.f = 2 /\ Len(c.clips) = 2
    /\ c.clips[1].audioId = "B" /\ c.clips[1].startTime = 0
    /\ c.clips[2].audioId = "A" /\ c.clips[2].startTime = 1
    /\ Len(c.made) = 1 /\ c.made[1].clip = c.clips[2].id
    /\ c.made[1].when = c.T0 /\ c.made[1].off = 1

\* What C7 compares: the active sources, the zero-time reference, the reported
\* position, the pending callbacks of the polling loop, the playing flag.
Observed(s) ==
  [sources |-> s.sourceNodes, zero |-> s.playStartTimeRef, position |-> s.currentTime,
   loop |-> [i \in DOMAIN s.rafQueue |-> s.rafQueue[i].total], playing |-> s.isPlaying]

\* C7: a click at x while playing leaves the state that stopPlayback followed
\* by playTimelineFromTime(x clamped) leaves, from the same state.
C7_SeekIsStopThenPlay ==
  (isPlaying /\ Settled) =>
    \A x \in 0..MaxStart :
      LET clamped == Min2(Max2(0, x), TotalDuration(clips))
          seek == Commit(St, HandleTimelineClickSt(St, x))
          afterStop == Commit(St, StopPlayback(St))
          stopPlay == Commit(afterStop, PlayTimelineFromTime(afterStop, clamped))
      IN Observed(seek) = Observed(stopPlay)

\* C8: a click at x while not playing sets currentTime to x clamped to
\* [0, total] and changes nothing else: still not playing, no source, no
\* callback, no invocation, no decode, the same clips.
C8_IdleSeek ==
  ~isPlaying =>
    \A x \in 0..MaxStart :
      LET r == Commit(St, HandleTimelineClickSt(St, x))
          total == TotalDuration(clips)
      IN /\ r.currentTime = (IF x < 0 THEN 0 ELSE IF x > total THEN total ELSE x)
         /\ ~r.isPlaying /\ ~r.isPlayingRef
         /\ r.sourceNodes = sourceNodes /\ r.endedQ = endedQ
         /\ r.rafQueue = rafQueue /\ r.progressAnimationRef = progressAnimationRef
         /\ r.calls = calls /\ r.audioBuffers = audioBuffers
         /\ r.playStartTimeRef = playStartTimeRef /\ r.clock = clock
         /\ r.clips = clips

\* Not playing, with the position a click has left at 2 on a timeline of
\* total 2 or more.
C8_Witness ==
  ~isPlaying /\ clips # <<>> /\ currentTime = 2 /\ TotalDuration(clips) >= 2

\* C9: stopPlayback, from any state a user event finds, leaves not playing, position 0, no source,
\* no pending callback and the same clips; a second stopPlayback changes nothing.
C9_StopIdempotent ==
  Settled =>
  LET r == Commit(St, StopPlayback(St)) IN
  /\ ~r.isPlaying /\ r.currentTime = 0 /\ r.sourceNodes = <<>>
  /\ r.rafQueue = <<>> /\ r.clips = clips
  /\ Commit(r, StopPlayback(r)) = r

\* C10: while playing, every newly reported position is clock - playStartTimeRef
\* and is at most the session's total; within one session (the same zero-time
\* reference and total) the reported position never decreases.
C10_PositionReporting ==
  [][/\ (isPlaying' /\ currentTime' # currentTime)
          => (currentTime' = clock' - playStartTimeRef' /\ currentTime' <= sessionTotal')
     /\ (isPlaying /\ isPlaying' /\ playStartTimeRef' = playStartTimeRef
           /\ sessionTotal' = sessionTotal)
          => currentTime' >= currentTime]_vars

\* What a handler leaves of the playback: flags, position, sources, polling
\* loop, invocations, cache, and the clips.
Playback(s) ==
  [isPlaying |-> s.isPlaying, isPlayingRef |-> s.isPlayingRef,
   currentTime |-> s.currentTime, sourceNodes |-> s.sourceNodes, endedQ |-> s.endedQ,
   rafQueue |-> s.rafQueue, progressAnimationRef |-> s.progressAnimationRef,
   playStartTimeRef |-> s.playStartTimeRef, calls |-> s.calls,
   audioBuffers |-> s.audioBuffers, clips |-> s.clips]

\* C11: on an empty timeline playTimelineFromTime(x) changes nothing (flags,
\* position, sources, polling loop, invocations), for every x; so does the
\* play button while not playing.
C11_PlayEmptyNoop ==
  clips = <<>> =>
    /\ \A x \in 0..MaxStart :
         Playback(Commit(St, PlayTimelineFromTime(St, x))) = Playback(St)
    /\ ~isPlaying => Playback(Commit(St, TogglePlaySt(St))) = Playback(St)

\* An empty timeline, not playing, on which the play button can be pressed,
\* after clips have been played and removed.
C11_Witness ==
  clips = <<>> /\ ~isPlaying /\ Settled /\ audioBuffers # {}

\* C12: no source is started for a clip whose duration is unresolved (0),
\* wherever the clip starts relative to the start offset.
C12_UnresolvedNotScheduled ==
  \A k \in DOMAIN calls : \A i \in DOMAIN calls[k].made : \A j \in DOMAIN calls[k].clips :
    calls[k].clips[j].id = calls[k].made[i].clip => calls[k].clips[j].duration # 0

\* C13: totalDuration is 0 for an empty timeline, and otherwise the largest
\* startTime + duration of a clip (a clip of unresolved duration counts 0), in
\* every state the editing handlers reach.
C13_TotalDuration ==
  IF clips = <<>> THEN TotalDuration(clips) = 0
  ELSE /\ \A i \in DOMAIN clips :
            clips[i].startTime + clips[i].duration <= TotalDuration(clips)
       /\ \E i \in DOMAIN clips :
            clips[i].startTime + clips[i].duration = TotalDuration(clips)

\* Three clips, one of unresolved duration, and the last clip of the list is
\* not the one that ends last.
C13_Witness ==
  /\ Len(clips) = 3
  /\ \E i \in DOMAIN clips : clips[i].duration = 0
  /\ clips[3].startTime + clips[3].duration < TotalDuration(clips)

\* The clip of list cs with the given id.
ClipOf(cs, id) == cs[CHOOSE i \in DOMAIN cs : cs[i].id = id]

\* C14: two successive calls of addAudioToTimeline with known durations, with
\* or without a render between them: the first clip starts at the total before
\* it, the second exactly at the first clip's start + duration.
C14_AppendAtEnd ==
  \A a1 \in Assets, a2 \in Assets, eager \in BOOLEAN :
    LET r == AddAudioTwiceSt(St, a1, a2, eager).clips
        id1 == Fresh(UsedClipIds(St))
        first == ClipOf(r, id1)
        second == ClipOf(r, id1 + 1)
        rendered == AddAudioToTimelineSt(St, a1)
        apart == ClipOf(AddAudioToTimelineSt(rendered, a2).clips, Fresh(UsedClipIds(rendered)))
    IN /\ first.startTime = TotalDuration(clips)
       /\ second.startTime = first.startTime + first.duration
       /\ apart.startTime = first.startTime + first.duration

\* C15: when the metadata of an audio appended without a duration has loaded,
\* its clip starts at the total duration of that moment.
C15_PlacedAtResolution ==
  \A i \in DOMAIN probes :
    ClipOf(LoadedMetadataSt(St, probes[i]).clips, Fresh(UsedClipIds(St))).startTime
      = TotalDuration(clips)

\* C16: addAudioToTimelineAtTime(audio, t) adds one clip, at max(0, t).
C16_InsertClamped ==
  \A a \in Assets, t \in Positions :
    LET r == AddAudioToTimelineAtTimeSt(St, a, t).clips IN
    /\ Len(r) = Len(clips) + 1
    /\ ClipOf(r, Fresh(UsedClipIds(St))).startTime = (IF t < 0 THEN 0 ELSE t)

\* C17: dragging clip id to t leaves the same clips, that clip at max(0, t) with
\* its id, asset and duration, every other clip as it was, whatever overlaps.
C17_Reposition ==
  \A id \in ClipIds, t \in Positions :
    LET r == HandleClipDragSt(St, id, t).clips IN
    /\ Len(r) = Len(clips)
    /\ \A i \in DOMAIN clips :
         \E j \in DOMAIN r :
           /\ r[j].id = clips[i].id /\ r[j].audioId = clips[i].audioId
           /\ r[j].duration = clips[i].duration
           /\ r[j].startTime = (IF clips[i].id # id THEN clips[i].startTime
                                ELSE IF t < 0 THEN 0 ELSE t)

\* Two clips that overlap in time.
C17_Witness ==
  \E i \in DOMAIN clips, j \in DOMAIN clips :
    /\ i # j /\ clips[i].duration > 0 /\ clips[j].duration > 0
    /\ clips[i].startTime < clips[j].startTime + clips[j].duration
    /\ clips[j].startTime < clips[i].startTime + clips[i].duration

\* C18: deleting the selection sel (which may hold an id of no clip, 0) leaves
\* exactly the clips whose id is not in sel, each unchanged and in the same
\* order; a selection that matches no clip changes nothing.
C18_Remove ==
  \A sel \in SUBSET (ClipIds \cup {0}) :
    LET r == ConfirmDeleteSt(St, sel).clips
        kept == {i \in DOMAIN clips : clips[i].id \notin sel}
    IN /\ Len(r) = Cardinality(kept)
       /\ \A i \in kept : \E j \in DOMAIN r : r[j] = clips[i]
       /\ \A j \in DOMAIN r, k \in DOMAIN r :
            j < k => \E i \in kept, m \in kept : i < m /\ clips[i] = r[j] /\ clips[m] = r[k]
       /\ sel \cap ClipIds = {} => r = clips

\* The timeline is empty, and a metadata load started when it was not is
\* still pending: clips have been deleted since.
C18_Witness ==
  clips = <<>> /\ \E i \in DOMAIN probes : probes[i].startTime > 0

\* C19: after applyIntervalSpacing with interval g, of the selected clips in
\* the order of their starts before the call, the first has kept its start and
\* each next one starts at the previous one's start + duration + g.
C19_Redistribute ==
  \A sel \in SUBSET ClipIds, g \in Spacings :
    sel # {} =>
      LET sorted == SortByStart(SelectSeq(clips, LAMBDA c : c.id \in sel))
          r == ApplyIntervalSpacingSt(St, sel, g).clips
      IN /\ ClipOf(r, sorted[1].id).startTime = sorted[1].startTime
         /\ \A i \in 2..Len(sorted) :
              ClipOf(r, sorted[i].id).startTime
                = ClipOf(r, sorted[i - 1].id).startTime + sorted[i - 1].duration + g

\* C20: applyIntervalSpacing keeps every clip's id, asset and duration, keeps
\* the start of every clip outside the selection, and with an empty selection
\* changes nothing.
C20_RedistributeFrame ==
  \A sel \in SUBSET (ClipIds \cup {0}), g \in Spacings :
    LET r == ApplyIntervalSpacingSt(St, sel, g).clips IN
    /\ Len(r) = Len(clips)
    /\ \A i \in DOMAIN clips :
         \E j \in DOMAIN r :
           /\ r[j].id = clips[i].id /\ r[j].audioId = clips[i].audioId
           /\ r[j].duration = clips[i].duration
           /\ clips[i].id \notin sel => r[j].startTime = clips[i].startTime
    /\ sel = {} => r = clips

\* Three clips: two laid out one after the other with the interval MaxGap, and
\* a third that overlaps the first.
C20_Witness ==
  \E i \in DOMAIN clips, j \in DOMAIN clips, k \in DOMAIN clips :
    /\ i # j /\ j # k /\ i # k /\ clips[i].duration > 0
    /\ clips[j].startTime = clips[i].startTime + clips[i].duration + MaxGap
    /\ clips[k].startTime = clips[i].startTime

\* C21: applyIntervalSpacing with a negative interval lays the selected clips
\* out as with the interval 0: each selected clip after the first starts at
\* the end of the selected clip before it, and no two of them overlap.
C21_NegativeGapAsZero ==
  \A sel \in SUBSET ClipIds, g \in Spacings :
    Cardinality(sel) > 1 /\ g < 0 =>
      ApplyIntervalSpacingSt(St, sel, g).clips = ApplyIntervalSpacingSt(St, sel, 0).clips

\* C22: exportAudio called with an empty clip list fails with an error that
\* reaches the user (the alert of the catch block): it does not return
\* silently, and it makes no buffer and no file.
C22_EmptyExportFails ==
  (exported.kind # "none" /\ exported.clips = <<>>) =>
    /\ exported.kind = "alert"
    /\ exported.audioBuffer = NoBuffer /\ exported.blob = NoBlob /\ exported.download = ""

\* The output index j (from 0) lies in the interval of the clip; the source
\* sample of the clip that belongs there; the sum of those of the clips of a
\* list that cover j; how many of them cover j.
Covers(c, j) ==
  c.startTime * SampleRate <= j /\ j < (c.startTime + c.duration) * SampleRate

SampleOf(c, j) == SourceData(c.audioId)[(j - c.startTime * SampleRate) + 1]

RECURSIVE SumCovering(_, _)
SumCovering(cs, j) ==
  IF cs = <<>> THEN 0
  ELSE (IF Covers(Head(cs), j) THEN SampleOf(Head(cs), j) ELSE 0) + SumCovering(Tail(cs), j)

Covering(cs, j) == {i \in DOMAIN cs : Covers(cs[i], j)}

\* The channel data of the buffer the last export has mixed
Mixed == exported.audioBuffer.channels[1]

\* C23: in the buffer exportAudio has mixed, the sample at every index that
\* two or more clips cover is the sum of the source samples of the clips that
\* cover it, as it is: not scaled, not clamped to [-1, 1].
C23_OverlapIsSum ==
  exported.kind = "blob" =>
    \A k \in DOMAIN Mixed :
      Cardinality(Covering(exported.clips, k - 1)) >= 2 =>
        Mixed[k] = SumCovering(exported.clips, k - 1)

\* A mixed buffer with a sample that two clips cover and that is above 1.0
C23_Witness ==
  /\ exported.kind = "blob"
  /\ \E k \in DOMAIN Mixed :
       /\ Cardinality(Covering(exported.clips, k - 1)) >= 2
       /\ Mixed[k] > SampleUnit

\* No two clips of the list overlap.
Disjoint(cs) ==
  \A i, j \in DOMAIN cs :
    i # j => (ClipEnd(cs[i]) <= cs[j].startTime \/ ClipEnd(cs[j]) <= cs[i].startTime)

\* C24: when no two clips overlap, the buffer exportAudio has mixed is 0 at
\* every index outside all clips, and at an index inside a clip it is that
\* clip's source sample at (index - start index of the clip).
C24_DisjointIsCopy ==
  (exported.kind = "blob" /\ Disjoint(exported.clips)) =>
    \A k \in DOMAIN Mixed :
      IF Covering(exported.clips, k - 1) = {} THEN Mixed[k] = 0
      ELSE \E i \in Covering(exported.clips, k - 1) :
             Mixed[k] = SampleOf(exported.clips[i], k - 1)

\* Two clips that do not overlap, mixed, with silence somewhere
C24_Witness ==
  /\ exported.kind = "blob" /\ Len(exported.clips) = 2 /\ Disjoint(exported.clips)
  /\ \E k \in DOMAIN Mixed : Covering(exported.clips, k - 1) = {}
  /\ \E k \in DOMAIN Mixed : Covering(exported.clips, k - 1) # {} /\ Mixed[k] # 0

\* The clip lists that hold the clips of cs in any order
Orders(cs) ==
  {[i \in DOMAIN cs |-> cs[f[i]]] :
     f \in {g \in [DOMAIN cs -> DOMAIN cs] : \A i, j \in DOMAIN cs : g[i] = g[j] => i = j}}

C26_Snapshot ==
  /\ [](/\ exported.kind = "blob" => exported.audioBuffer = Render(exported.clips)
        /\ \A i \in DOMAIN exports :
             /\ exports[i].sortedClips = SortByStart(exports[i].clips)
             /\ exports[i].totalSamples = TotalSamples(TotalDuration(exports[i].clips), 1))
  /\ [][(exports' # exports \/ exported' # exported) => clips' = clips]_vars

\* An export has finished after the clip list was edited: the list is no
\* longer the one that was mixed.
C26_Witness ==
  /\ exported.kind = "blob" /\ Len(exported.clips) = 2
  /\ clips # <<>> /\ Render(clips) # exported.audioBuffer

\* The bytes the primary path of audioBufferToMp3 ends with for the buffer,
\* -1 when it fails before it has encoded: no Lame, no Mp3Encoder, a throw.
PrimaryBytes(buffer, lame) ==
  IF lame.kind # "encoder" THEN 0 - 1
  ELSE Ceil(buffer.length, SampleBlockSize) * lame.block + lame.flush

\* The size of the WAV file of a buffer
WavSize(buffer) == HeaderSize + 2 * buffer.length * buffer.numberOfChannels

\* C27: audioBufferToMp3 never rejects: exportAudio gets a blob for every
\* buffer, and when the primary path has failed (no encoder, a throw, no
\* bytes) the blob is the WAV file of the buffer.
C27_Fallback ==
  exported.kind # "none" =>
    /\ exported.kind = "blob"
    /\ PrimaryBytes(exported.audioBuffer, exported.lame) <= 0 =>
         /\ exported.blob.type = "audio/wav"
         /\ exported.blob.size = WavSize(exported.audioBuffer)
         /\ exported.blob = AudioBufferToWav(exported.audioBuffer)

\* The encoder was there and returned no byte: the blob is a WAV file.
C27_Witness ==
  /\ exported.kind = "blob" /\ exported.lame.kind = "encoder"
  /\ PrimaryBytes(exported.audioBuffer, exported.lame) = 0
  /\ exported.blob.type = "audio/wav"

\* C28: the blob of audioBufferToMp3 is never empty, its type is MP3 exactly
\* when the primary path ended with at least one byte (and then it has those
\* bytes), WAV otherwise, and the extension of the download follows the type.
C28_FormatFlag ==
  exported.kind = "blob" =>
    LET n == PrimaryBytes(exported.audioBuffer, exported.lame) IN
    /\ exported.blob.size > 0
    /\ exported.blob.type = (IF n > 0 THEN "audio/mpeg" ELSE "audio/wav")
    /\ n > 0 => exported.blob.size = n
    /\ exported.download = (IF n > 0 THEN "mp3" ELSE "wav")

\* An MP3 blob made of the bytes of the flush alone
C28_Witness ==
  /\ exported.kind = "blob" /\ exported.download = "mp3"
  /\ exported.lame.block = 0 /\ exported.lame.flush > 0

\* The unsigned and signed little-endian numbers read from the bytes at an
\* offset
ReadUint16(bytes, offset) == bytes[offset + 1] + 256 * bytes[offset + 2]
ReadUint32(bytes, offset) ==
  ReadUint16(bytes, offset) + 65536 * ReadUint16(bytes, offset + 2)
ReadInt16(bytes, offset) ==
  IF ReadUint16(bytes, offset) >= 32768 THEN ReadUint16(bytes, offset) - 65536
  ELSE ReadUint16(bytes, offset)

\* C29: the WAV file of a buffer of L frames, C channels and rate R has
\* 44 + 2*L*C bytes: RIFF, 36 + 2*L*C, WAVE, 'fmt ', 16, 1, C, R, R*C*2, C*2,
\* 16, 'data', 2*L*C, little-endian, then one 16-bit sample for each frame
\* and, within the frame, for each channel.
C29_WavLayout ==
  (exported.kind = "blob" /\ exported.blob.type = "audio/wav") =>
    LET b == exported.audioBuffer
        L == b.length
        C == b.numberOfChannels
        bytes == exported.blob.bytes
    IN /\ Len(bytes) = 44 + 2 * L * C
       /\ \A k \in DOMAIN bytes : bytes[k] \in 0..255
       /\ SubSeq(bytes, 1, 4) = <<82, 73, 70, 70>>
       /\ ReadUint32(bytes, 4) = 36 + 2 * L * C
       /\ SubSeq(bytes, 9, 16) = <<87, 65, 86, 69, 102, 109, 116, 32>>
       /\ ReadUint32(bytes, 16) = 16
       /\ ReadUint16(bytes, 20) = 1
       /\ ReadUint16(bytes, 22) = C
       /\ ReadUint32(bytes, 24) = b.sampleRate
       /\ ReadUint32(bytes, 28) = b.sampleRate * C * 2
       /\ ReadUint16(bytes, 32) = C * 2
       /\ ReadUint16(bytes, 34) = 16
       /\ SubSeq(bytes, 37, 40) = <<100, 97, 116, 97>>
       /\ ReadUint32(bytes, 40) = 2 * L * C
       /\ \A i \in 0..(L - 1), channel \in 0..(C - 1) :
            ReadInt16(bytes, 44 + 2 * (i * C + channel))
              = QuantizeSample(b.channels[channel + 1][i + 1])

\* The WAV file of a stereo buffer of two frames whose samples all differ
C29_Witness ==
  /\ exported.kind = "blob" /\ exported.blob.type = "audio/wav"
  /\ exported.audioBuffer.length = 2 /\ exported.audioBuffer.numberOfChannels = 2
  /\ exported.audioBuffer.sampleRate = 44100
  /\ exported.audioBuffer.channels = << <<1, 0 - 3>>, <<3, 0 - 1>> >>

\* The invocations of playTimelineFromTime and of exportAudio that await a
\* decode of the asset: each has called decodeAudioData for it.
DecodesOf(a, cs, xs) ==
  Cardinality({i \in DOMAIN cs : cs[i].pc = "decode" /\ Decoding(cs[i]) = a})
    + Cardinality({i \in DOMAIN xs : xs[i].pc = "decode" /\ ClipAt(XSt, xs[i]).audioId = a})

\* C30: once the buffer of an asset is in the cache it stays there, and no
\* step of playback, seek or export starts another decode of that asset.
C30_CacheIdempotent ==
  [][\A a \in audioBuffers :
       /\ a \in audioBuffers'
       /\ DecodesOf(a, calls', exports') <= DecodesOf(a, calls, exports)]_vars

\* An export has mixed the timeline that is playing, and nothing is decoding.
C30_Witness ==
  /\ exported.kind = "blob" /\ isPlaying /\ sourceNodes # <<>>
  /\ calls = <<>> /\ exports = <<>>
  /\ audioBuffers = {clips[i].audioId : i \in DOMAIN clips}

\* The asset an invocation of playTimelineFromTime suspended in a decode awaits
Awaited(c) == c.clips[c.idx].audioId

\* C31: a decode that fails surfaces to the caller that awaited it (the catch
\* block of that play() or export runs) and leaves the cache as it was: the
\* failure stores no entry for the asset and every entry is unchanged; a
\* resolve of an asset that is not in the cache suspends in a decode again.
C31_FailedDecodeNotCached ==
  [][/\ (Quiet /\ \E k \in DOMAIN calls' : calls'[k].pc = "caught")
          => /\ audioBuffers' = audioBuffers
             /\ \E i \in DOMAIN calls, k \in DOMAIN calls' :
                  /\ calls[i].pc = "decode" /\ calls'[k].pc = "caught"
                  /\ Awaited(calls'[k]) = Awaited(calls[i])
     /\ (exported.kind = "none" /\ exported'.failed # "")
          => /\ audioBuffers' = audioBuffers
             /\ exported'.kind = "alert"
             /\ \E i \in DOMAIN exports :
                  /\ exports[i].pc = "decode"
                  /\ exported'.failed = ClipAt(XSt, exports[i]).audioId
     /\ \A k \in DOMAIN calls' :
          calls'[k].pc # "caught" =>
          (calls'[k].pc = "decode") = (/\ calls'[k].idx <= Len(calls'[k].clips)
                                      /\ \/ Awaited(calls'[k]) \notin audioBuffers'
                                         \/ \E i \in DOMAIN calls : calls[i].pc = "decode")
    ]_vars

\* An export has failed in the decode of an asset, the cache holds another
\* asset and not that one, and a play() awaits the decode of that asset.
C31_Witness ==
  /\ exported.kind = "alert" /\ exported.failed # ""
  /\ audioBuffers = Assets \ {exported.failed}
  /\ \E k \in DOMAIN calls : calls[k].pc = "decode" /\ Awaited(calls[k]) = exported.failed
\* The clip of a one-clip invocation, and what its samples make of a silent
\* buffer when they are added from the index `start` on.
PlacedAt(e, start) ==
  AddSamples(NewBuffer(e.totalSamples).channels[1], start,
             SourceData(e.sortedClips[1].audioId), e.totalSamples)

\* C32: sample i of a clip that starts at or after 0 is added at the output
\* index round(clip.start * sample_rate) + i, rounded to the nearest integer.
C32_RoundToNearest ==
  \A i \in DOMAIN exports :
    (exports[i].pc = "mixed" /\ exports[i].sortedClips[1].startTime >= 0) =>
      exports[i].audioBuffer.channels[1] =
        PlacedAt(exports[i], Round(exports[i].sortedClips[1].startTime * SampleRate,
                                   exports[i].den))

\* C33: for a timeline whose clip starts at or after 0, the output is one mono
\* buffer of exactly ceil(total_duration * sample_rate) samples, silent before
\* the first clip is added; the export raises no error; every write index of
\* every clip lies in [0, output length).
C33_BufferBounds ==
  /\ exported.kind = "alert" => exported.clips[1].startTime < 0
  /\ \A i \in DOMAIN exports :
       LET e == exports[i]
           clip == e.sortedClips[1]
       IN (exports[i].pc # "alloc" /\ clip.startTime >= 0) =>
            /\ e.audioBuffer.numberOfChannels = 1
            /\ e.audioBuffer.length = Ceil(ClipEnd(clip) * SampleRate, e.den)
            /\ Len(e.audioBuffer.channels[1]) = e.audioBuffer.length
            /\ (e.pc = "mix" => \A k \in DOMAIN e.audioBuffer.channels[1] :
                                  e.audioBuffer.channels[1][k] = 0)
            /\ WriteIndices(StartSample(clip.startTime, e.den), SourceData(clip.audioId),
                            e.totalSamples, e.audioBuffer.length)
                 \subseteq 0..(e.audioBuffer.length - 1)
\* The 16-bit value a sample of v units is to encode as: v clamped to
\* [-1, 1], scaled by 32768 below 0 and by 32767 from 0 on, the fraction dropped.
Encoded(v) ==
  IF v >= SampleUnit THEN 32767
  ELSE IF v <= 0 - SampleUnit THEN 0 - 32768
  ELSE IF v < 0 THEN 0 - (((0 - v) * 32768) \div SampleUnit)
  ELSE (v * 32767) \div SampleUnit

\* C34: on the primary and on the fallback path every sample is clamped to
\* [-1, 1] and then scaled to a signed 16-bit value in [-32768, 32767], with no
\* wraparound: 1.5 encodes as 32767 and -1.5 as -32768.
C34_Quantization ==
  exported.kind = "blob" =>
    LET buffer == exported.audioBuffer IN
    \A channel \in 1..buffer.numberOfChannels, i \in 1..buffer.length :
      LET v == buffer.channels[channel][i] IN
      /\ Int16Samples(buffer)[channel][i] = Encoded(v)
      /\ Encoded(v) \in (0 - 32768)..32767
      /\ exported.blob.type = "audio/wav" =>
           ReadInt16(exported.blob.bytes,
                     HeaderSize + 2 * ((i - 1) * buffer.numberOfChannels + (channel - 1)))
             = Encoded(v)

\* A WAV file has been made of a buffer with a sample of 1.5 and one of -1.5.
C34_Witness ==
  /\ exported.kind = "blob" /\ exported.blob.type = "audio/wav"
  /\ exported.audioBuffer.length = 2 /\ exported.audioBuffer.numberOfChannels = 1
  /\ exported.audioBuffer.channels[1] = <<MaxSample, 0 - MaxSample>>
  /\ ReadInt16(exported.blob.bytes, HeaderSize) = 32767
  /\ ReadInt16(exported.blob.bytes, HeaderSize + 2) = 0 - 32768
\* C35: in the ordered view of the timeline, clips with equal starts appear
\* in the order in which they were inserted (clip ids are numbered in the
\* order of insertion), after any sequence of edits.
C35_TiesInInsertionOrder ==
  LET view == SortByStart(clips) IN
  \A i \in DOMAIN view, j \in DOMAIN view :
    (i < j /\ view[i].startTime = view[j].startTime) => view[i].id < view[j].id
\* C37: the stored clip array is in non-decreasing order of start, after any
\* sequence of append, insert_at, drop, reposition, redistribute and remove.
C37_StoredSorted ==
  \A i \in DOMAIN clips, j \in DOMAIN clips :
    i < j => clips[i].startTime <= clips[j].startTime

\* A clip inserted later is stored before a clip inserted earlier, its start
\* being the smaller one.
C37_Witness ==
  /\ Len(clips) = MaxTrack
  /\ \E i \in DOMAIN clips, j \in DOMAIN clips :
       i < j /\ clips[i].id > clips[j].id /\ clips[i].startTime < clips[j].startTime
\* The sum over the items before item i of (d_j + g_j), the items that gave no
\* audio or no duration left out
RECURSIVE Offset(_, _)
Offset(items, i) ==
  IF i <= 1 THEN 0
  ELSE Offset(items, i - 1)
         + (IF items[i - 1].outcome = "ok"
            THEN AssetDuration(items[i - 1].audio) + items[i - 1].breakTime ELSE 0)

\* C36: in a batch import, item i is inserted with insert_at at the sum over
\* the items j < i of (d_j + g_j), the first at 0, in item order; an item whose
\* synthesis fails is skipped: the batch goes on and the running offset stays.
C36_BatchSequencing ==
  /\ [](batch.currentTimelineTime = Offset(batch.items, batch.i))
  /\ [][batch'.i # batch.i =>
          LET item == batch.items[batch.i] IN
          /\ batch'.i = batch.i + 1 /\ batch'.items = batch.items
          /\ item.outcome = "ok" =>
               /\ Len(clips') = Len(clips) + 1
               /\ \E k \in DOMAIN clips' :
                    /\ clips'[k].id = Len(clips')
                    /\ clips'[k].audioId = item.audio
                    /\ clips'[k].startTime = Offset(batch.items, batch.i)
                    /\ clips'[k].duration = AssetDuration(item.audio)
                    /\ \A j \in DOMAIN clips :
                         clips[j] = clips'[IF j < k THEN j ELSE j + 1]
          /\ item.outcome = "fails" =>
               /\ clips' = clips /\ probes' = probes
               /\ batch'.currentTimelineTime = batch.currentTimelineTime
     ]_vars

\* A batch of MaxItems items is through: the second item failed, the first
\* had a break, and the third is on the timeline right after that break.
C36_Witness ==
  /\ Len(batch.items) = MaxItems /\ batch.i = MaxItems + 1
  /\ batch.items[1].outcome = "ok" /\ batch.items[1].breakTime = MaxBreak
  /\ batch.items[2].outcome = "fails"
  /\ batch.items[3].outcome = "ok"
  /\ Len(clips) = 2
  /\ clips[1].startTime = 0
  /\ clips[2].startTime = AssetDuration(batch.items[1].audio) + MaxBreak
\* C38: at any time each clip has at most one live source (started, not
\* stopped, not played to its end), also when play() or a seek is invoked
\* while an earlier play() is suspended in a decode.
C38_SingleSession ==
  \A i \in LiveNodes(St), j \in LiveNodes(St) :
    i # j => sourceNodes[i].clip # sourceNodes[j].clip
\* C39: whenever isPlaying is false and no invocation of play() is in
\* progress, no source is emitting or scheduled to emit; the sources a play()
\* has started are halted when the decode of a later clip fails.
C39_IdleMeansSilent ==
  (~isPlaying /\ calls = <<>>) => LiveNodes(St) = {}
\* C40: a clip made by dropping a history item references the asset of the
\* item, its id and its bytes, and plays and exports as an appended clip of
\* that item does: no play() and no export fails on a timeline of valid
\* assets.
C40_DropSameAsset ==
  /\ \A i \in DOMAIN clips : clips[i].blob = HistoryAudio(clips[i].audioId).blob
  /\ \A k \in DOMAIN calls : calls[k].pc # "caught"
  /\ exported.kind # "alert"
====
